---- MODULE Spec2Model ----
(***************************************************************************)
(* HITBACK game session / round engine.                                    *)
(*                                                                         *)
(* The model follows the spend-once-token GameSessionService together     *)
(* with the TrackService singleton (the variant that keeps usedTrackIds)   *)
(* and the QuestionService.  nextRound is the only asynchronous           *)
(* operation: it is split at its single await (the Deezer lookup) into    *)
(* NextRoundBegin and NextRoundResume, and any other operation may run     *)
(* between the two.                                                        *)
(***************************************************************************)
EXTENDS Integers, Sequences, FiniteSets, TLC

(***************************************************************************)
(* Bounds of the model.                                                    *)
(***************************************************************************)
\* cap on a session's round counter
MaxRound == 2
\* nextRound activations that may be suspended on the audio lookup at once
MaxInFlight == 2

\* references of the session objects a behaviour may allocate
Refs == {1, 2}

\* the ids _generateSessionId may return ('game_' + random suffix)
SessionIds == {"game_a", "game_b"}

\* JavaScript null, for object-valued slots
Null == [null |-> TRUE]
\* JavaScript null, for string-valued slots (winnerId, forcedQuestionType)
NullId == "null"

\* `player_${index + 1}`
PlayerIdTable == <<"player_1", "player_2", "player_3">>

(***************************************************************************)
(* Inputs of specification Spec: one session, two players.                 *)
(***************************************************************************)
\* the id _generateSessionId returns
CreateIds == {"game_a"}
\* config.players of createSession
PlayerLists == {<<"Ana", "Bob">>}
\* config.targetScore of createSession
TargetScores == {3}
\* config.genres / decades / difficulty of createSession
FilterConfigs ==
  {[genres |-> <<"ANY">>, decades |-> <<"ANY">>, difficulty |-> "ANY"]}
\* winnerId argument of revealAnswer
WinnerInputs == {"player_1", "player_2", NullId}
\* <<playerId, tokenValue>> arguments of placeBet: the first player may bet
\* two of the tokens and a value that is no token, the second player one token
BetInputs ==
  {<<"player_1", 1>>, <<"player_1", 2>>, <<"player_1", 4>>, <<"player_2", 1>>}
\* forcedQuestionType argument of nextRound
ForcedTypeInputs == {"song", "artist"}
\* what DeezerService.searchTrack may hand back
AudioOutcomes == {"preview", "nopreview"}

(***************************************************************************)
(* Inputs of specification SpecStore: two sessions in one store.           *)
(***************************************************************************)
\* createSession does not reject an empty player list
StorePlayerLists == {<< >>}
StorePlayerIdInputs == {"player_1"}
StoreWinnerInputs == {NullId}
StoreTokenInputs == {1}
StoreForcedTypeInputs == {"song"}
StoreAudioOutcomes == {"nopreview"}

(***************************************************************************)
(* Inputs of specification SpecSeq: one session whose rounds are requested *)
(* one after the other, over several catalogs and filter configurations.   *)
(***************************************************************************)
\* what the Deezer request may do: a hit with a preview, hits without
\* preview, no hit, a network error, the 5 s timeout
SeqAudioOutcomes == {"preview", "nopreview", "noresults", "error", "timeout"}
\* forcedQuestionType of nextRound: absent (random type) or forced
SeqForcedTypeInputs == {NullId, "song"}
\* <<playerId, tokenValue>> arguments of placeBet
SeqBetInputs == {<<"player_1", 1>>, <<"player_2", 2>>}

(***************************************************************************)
(* The track catalog (TrackService.tracks, loaded from tracks.json).       *)
(***************************************************************************)
NoLyrics == [fragment |-> FALSE, answer |-> FALSE]
NoChallenge == [text |-> FALSE]

Catalog ==
  << [id |-> "001", title |-> "Title1", artist |-> "Artist1", year |-> 1985,
      genre |-> "ROCK", decade |-> "1980s", difficulty |-> "easy",
      lyrics |-> NoLyrics, challenge |-> NoChallenge],
     [id |-> "002", title |-> "Title2", artist |-> "Artist2", year |-> 1994,
      genre |-> "POP", decade |-> "1990s", difficulty |-> "medium",
      lyrics |-> NoLyrics, challenge |-> NoChallenge] >>

Catalogs == {Catalog}

\* tracks.json missing or unreadable, a single track, the two tracks
SeqCatalogs == {<< >>, <<Catalog[1]>>, Catalog}

\* configurations: no filter; a genre and a decade no track has together;
\* a difficulty no track has
SeqFilterConfigs ==
  {[genres |-> <<"ANY">>, decades |-> <<"ANY">>, difficulty |-> "ANY"],
   [genres |-> <<"ROCK">>, decades |-> <<"1990s">>, difficulty |-> "ANY"],
   [genres |-> <<"ANY">>, decades |-> <<"ANY">>, difficulty |-> "HARD"]}

(***************************************************************************)
(* Sequence helpers.                                                       *)
(***************************************************************************)
Range(s) == {s[i] : i \in DOMAIN s}

\* Array.prototype.filter(t => t !== v)
Without(s, v) == SelectSeq(s, LAMBDA t : t # v)

(***************************************************************************)
(* TrackService (singleton).                                               *)
(***************************************************************************)
\* String.prototype.toLowerCase on the strings the catalog and configs use
toLowerCase(s) ==
  CASE s \in {"EASY", "Easy", "easy"} -> "easy"
    [] s \in {"MEDIUM", "Medium", "medium"} -> "medium"
    [] s \in {"HARD", "Hard", "hard"} -> "hard"
    [] s \in {"ANY", "any"} -> "any"
    [] OTHER -> s

\* String.prototype.toUpperCase on the strings the catalog and configs use
toUpperCase(s) ==
  CASE s \in {"ROCK", "Rock", "rock"} -> "ROCK"
    [] s \in {"POP", "Pop", "pop"} -> "POP"
    [] s \in {"ANY", "any"} -> "ANY"
    [] OTHER -> s

\* `filters.x && filters.x !== 'ANY'`: "" and NullId stand for falsy values
FilterActive(f) == f # "" /\ f # NullId /\ f # "ANY"

\* t.difficulty && t.difficulty.toLowerCase() === filters.difficulty.toLowerCase()
DifficultyMatches(t, f) ==
  t.difficulty # "" /\ toLowerCase(t.difficulty) = toLowerCase(f)

\* t.genre && t.genre.toUpperCase() === filters.genre.toUpperCase()
GenreMatches(t, f) == t.genre # "" /\ toUpperCase(t.genre) = toUpperCase(f)

\* t.decade === filters.decade
DecadeMatches(t, f) == t.decade = f

\* the selected track is not marked as used
PickWithoutMark(pool, used) ==
  {[threw |-> FALSE, track |-> pool[i], used |-> used] : i \in DOMAIN pool}

\* the outcomes of picking pool[Math.floor(Math.random() * pool.length)] and
\* marking it: one per element of the pool
PickAndMark(pool, used) ==
  {[threw |-> FALSE, track |-> pool[i], used |-> used \cup {pool[i].id}] :
     i \in DOMAIN pool}

\* markTrackAsUsed(undefined.id): a TypeError, after the used set was cleared
TrackThrow == [threw |-> TRUE, track |-> Null, used |-> {}]

\* the fallback tiers do not exclude the used tracks
getFallbackTrackAnyTrack(trks, used, filters) ==
  LET byDiff == SelectSeq(trks, LAMBDA t :
                  DifficultyMatches(t, filters.difficulty))
      byGenre == SelectSeq(trks, LAMBDA t : GenreMatches(t, filters.genre))
  IN  IF FilterActive(filters.difficulty) /\ Len(byDiff) > 0
        THEN PickAndMark(byDiff, used)
      ELSE IF FilterActive(filters.genre) /\ Len(byGenre) > 0
        THEN PickAndMark(byGenre, used)
      ELSE IF Len(trks) > 0
        THEN PickAndMark(trks, used)
      ELSE {TrackThrow}

\* the fallback tries the genre before the difficulty
getFallbackTrackGenreFirst(trks, used, filters) ==
  LET byDiff == SelectSeq(trks, LAMBDA t :
                  DifficultyMatches(t, filters.difficulty) /\ t.id \notin used)
      byGenre == SelectSeq(trks, LAMBDA t :
                  GenreMatches(t, filters.genre) /\ t.id \notin used)
      availableTracks == SelectSeq(trks, LAMBDA t : t.id \notin used)
  IN  IF FilterActive(filters.genre) /\ Len(byGenre) > 0
        THEN PickAndMark(byGenre, used)
      ELSE IF FilterActive(filters.difficulty) /\ Len(byDiff) > 0
        THEN PickAndMark(byDiff, used)
      ELSE IF Len(availableTracks) > 0
        THEN PickAndMark(availableTracks, used)
      ELSE IF Len(trks) > 0
        THEN PickAndMark(trks, {})
      ELSE {TrackThrow}

\* getFallbackTrack(filters), on the used set `used`
getFallbackTrack(trks, used, filters) ==
  LET byDiff == SelectSeq(trks, LAMBDA t :
                  DifficultyMatches(t, filters.difficulty) /\ t.id \notin used)
      byGenre == SelectSeq(trks, LAMBDA t :
                  GenreMatches(t, filters.genre) /\ t.id \notin used)
      availableTracks == SelectSeq(trks, LAMBDA t : t.id \notin used)
  IN  IF FilterActive(filters.difficulty) /\ Len(byDiff) > 0
        THEN PickAndMark(byDiff, used)
      ELSE IF FilterActive(filters.genre) /\ Len(byGenre) > 0
        THEN PickAndMark(byGenre, used)
      ELSE IF Len(availableTracks) > 0
        THEN PickAndMark(availableTracks, used)
      ELSE IF Len(trks) > 0
        THEN PickAndMark(trks, {})
      ELSE {TrackThrow}

\* getRandomTrack(filters): the set of its possible outcomes, each the
\* selected track and the used set the call leaves behind
getRandomTrack(trks, used, filters) ==
  LET unused == SelectSeq(trks, LAMBDA t : t.id \notin used)
      wrap == Len(unused) = 0
      used1 == IF wrap THEN {} ELSE used
      pool1 == IF wrap THEN trks ELSE unused
      pool2 == IF FilterActive(filters.difficulty)
                 THEN SelectSeq(pool1, LAMBDA t :
                        DifficultyMatches(t, filters.difficulty))
                 ELSE pool1
      pool3 == IF FilterActive(filters.genre)
                 THEN SelectSeq(pool2, LAMBDA t : GenreMatches(t, filters.genre))
                 ELSE pool2
      pool4 == IF FilterActive(filters.decade)
                 THEN SelectSeq(pool3, LAMBDA t : DecadeMatches(t, filters.decade))
                 ELSE pool3
  IN  IF Len(pool4) = 0
        THEN getFallbackTrack(trks, used1, filters)
        ELSE PickAndMark(pool4, used1)

(***************************************************************************)
(* QuestionService.                                                        *)
(***************************************************************************)
AUTO_TYPES == <<"song", "artist", "decade", "year">>

BASE_POINTS ==
  [song |-> 1, artist |-> 2, decade |-> 2, year |-> 3, lyrics |-> 3,
   challenge |-> 5]

\* getAvailableTypes(track)
getAvailableTypes(track) ==
  Range(AUTO_TYPES)
    \cup (IF track.lyrics.fragment /\ track.lyrics.answer THEN {"lyrics"} ELSE {})
    \cup (IF track.challenge.text THEN {"challenge"} ELSE {})

\* getRandomQuestionType(track): every available type has a positive weight,
\* so each can be drawn
getRandomQuestionType(track) == getAvailableTypes(track)

\* _generateAcceptableAnswers / _generateDecadeAcceptable: the variants are
\* derived from the answer; kept as a tagged value of the answer
AcceptableAnswers(answer) == <<"variants-of", answer>>

QuestionThrow == [threw |-> TRUE]

_generateSongQuestion(track) ==
  [threw |-> FALSE, type |-> "song", answer |-> track.title,
   acceptableAnswers |-> AcceptableAnswers(track.title),
   hints |-> <<"artist-first-word", "genre">>,
   points |-> BASE_POINTS.song, isChallenge |-> FALSE]

_generateArtistQuestion(track) ==
  [threw |-> FALSE, type |-> "artist", answer |-> track.artist,
   acceptableAnswers |-> AcceptableAnswers(track.artist),
   hints |-> <<"decade", "genre", "title-prefix">>,
   points |-> BASE_POINTS.artist, isChallenge |-> FALSE]

_generateDecadeQuestion(track) ==
  [threw |-> FALSE, type |-> "decade", answer |-> track.decade,
   acceptableAnswers |-> AcceptableAnswers(track.decade),
   hints |-> <<"near-decade", "genre">>,
   points |-> BASE_POINTS.decade, isChallenge |-> FALSE]

\* track.year.toString() throws when the track has no year (year = 0 here)
_generateYearQuestion(track) ==
  IF track.year = 0 THEN QuestionThrow
  ELSE [threw |-> FALSE, type |-> "year", answer |-> ToString(track.year),
        acceptableAnswers |-> <<ToString(track.year)>>,
        hints |-> <<"decade", "year-range">>,
        points |-> BASE_POINTS.year, isChallenge |-> FALSE]

_generateLyricsQuestion(track) ==
  IF ~track.lyrics.fragment THEN _generateArtistQuestion(track)
  ELSE [threw |-> FALSE, type |-> "lyrics",
        answer |-> IF track.lyrics.answer THEN "lyrics-answer" ELSE "undefined",
        acceptableAnswers |-> IF track.lyrics.answer
                                THEN AcceptableAnswers("lyrics-answer") ELSE << >>,
        hints |-> <<"listen">>,
        points |-> BASE_POINTS.lyrics, isChallenge |-> FALSE]

_generateChallengeQuestion(track) ==
  IF ~track.challenge.text THEN _generateSongQuestion(track)
  ELSE [threw |-> FALSE, type |-> "challenge", answer |-> "Completar reto",
        acceptableAnswers |-> <<"completado", "hecho", "done">>,
        hints |-> <<"talent">>,
        points |-> BASE_POINTS.challenge, isChallenge |-> TRUE]

\* the switch of generateQuestion
QuestionOfType(track, type) ==
  CASE type = "song" -> _generateSongQuestion(track)
    [] type = "artist" -> _generateArtistQuestion(track)
    [] type = "decade" -> _generateDecadeQuestion(track)
    [] type = "year" -> _generateYearQuestion(track)
    [] type = "lyrics" -> _generateLyricsQuestion(track)
    [] type = "challenge" -> _generateChallengeQuestion(track)
    [] OTHER -> _generateSongQuestion(track)

\* generateQuestion(track, questionType): the set of its possible outcomes
generateQuestion(track, questionType) ==
  IF questionType # NullId /\ questionType # ""
    THEN {QuestionOfType(track, questionType)}
    ELSE {QuestionOfType(track, t) : t \in getRandomQuestionType(track)}

(***************************************************************************)
(* DeezerService.                                                          *)
(***************************************************************************)
\* a result with a preview whatever the request did
searchTrackAlwaysFound(outcome) == [previewUrl |-> "preview-url"]

\* searchTrack(trackName, artistName), by what the request did: the first
\* hit with a preview, else null; errors and the timeout are caught
searchTrack(outcome) ==
  IF outcome = "preview" THEN [previewUrl |-> "preview-url"] ELSE Null

(***************************************************************************)
(* State.                                                                  *)
(***************************************************************************)
VARIABLES
  tracks,        \* TrackService.tracks
  usedTrackIds,  \* TrackService.usedTrackIds (one set for the whole process)
  sessions,      \* GameSessionService.sessions: id -> session object (0: absent)
  heap,          \* the session objects ever allocated, by reference
  calls,         \* nextRound activations suspended at the await
  result,        \* what the last completed operation returned to its caller
  now            \* Date.now(), in hours since the process started

vars == <<tracks, usedTrackIds, sessions, heap, calls, result, now>>

\* a timestamp field that was never assigned (session.startedAt before startGame)
NoTime == -1

NoResult == [op |-> "none"]

(***************************************************************************)
(* GameSessionService: construction and views.                             *)
(***************************************************************************)
\* one element of players.map(...) in createSession
NewPlayer(name, index) ==
  [id |-> PlayerIdTable[index], name |-> name, score |-> 0,
   availableTokens |-> <<1, 2, 3>>,
   stats |-> [correctAnswers |-> 0, wrongAnswers |-> 0, tokensUsed |-> << >>]]

\* the round counter of a new session starts at 1
NewSessionFromOne(id, players, filterConfig, targetScore) ==
  [id |-> id, status |-> "created",
   config |-> [genres |-> filterConfig.genres, decades |-> filterConfig.decades,
               difficulty |-> filterConfig.difficulty,
               targetScore |-> targetScore],
   players |-> [i \in DOMAIN players |-> NewPlayer(players[i], i)],
   round |-> 1, usedTrackIds |-> << >>, currentRound |-> Null,
   history |-> << >>, createdAt |-> now, startedAt |-> NoTime]

\* the session object createSession builds
NewSession(id, players, filterConfig, targetScore) ==
  [id |-> id, status |-> "created",
   config |-> [genres |-> filterConfig.genres, decades |-> filterConfig.decades,
               difficulty |-> filterConfig.difficulty,
               targetScore |-> targetScore],
   players |-> [i \in DOMAIN players |-> NewPlayer(players[i], i)],
   round |-> 0, usedTrackIds |-> << >>, currentRound |-> Null,
   history |-> << >>, createdAt |-> now, startedAt |-> NoTime]

\* _sanitizeSession(session): a shallow copy whose currentRound lacks _answer
_sanitizeSession(session) ==
  IF session.currentRound = Null THEN session
  ELSE [session EXCEPT !.currentRound =
          [f \in DOMAIN session.currentRound \ {"_answer"} |->
             session.currentRound[f]]]

\* _getRandomFromArray(arr): the values it may return
_getRandomFromArray(arr) ==
  IF Len(arr) = 0 \/ "ANY" \in Range(arr) THEN {"ANY"} ELSE Range(arr)

\* session.players.find(p => p.id === playerId): its index, 0 when not found
FindPlayer(session, playerId) ==
  IF \E i \in DOMAIN session.players : session.players[i].id = playerId
    THEN CHOOSE i \in DOMAIN session.players :
           /\ session.players[i].id = playerId
           /\ \A j \in 1..(i - 1) : session.players[j].id # playerId
    ELSE 0

\* the comparison is strict: a score equal to the target does not win
WinnerIndexStrict(session) ==
  IF \E i \in DOMAIN session.players :
       session.players[i].score > session.config.targetScore
    THEN CHOOSE i \in DOMAIN session.players :
           /\ session.players[i].score > session.config.targetScore
           /\ \A j \in 1..(i - 1) :
                session.players[j].score <= session.config.targetScore
    ELSE 0

\* the first index of session.players whose score reaches the target, 0 if none
WinnerIndex(session) ==
  IF \E i \in DOMAIN session.players :
       session.players[i].score >= session.config.targetScore
    THEN CHOOSE i \in DOMAIN session.players :
           /\ session.players[i].score >= session.config.targetScore
           /\ \A j \in 1..(i - 1) :
                session.players[j].score < session.config.targetScore
    ELSE 0

\* nobody is ever found to have reached the target
_checkWinnerNever(session) == Null

\* _checkWinner(session)
_checkWinner(session) ==
  IF WinnerIndex(session) = 0 THEN Null
  ELSE LET player == session.players[WinnerIndex(session)]
       IN  [id |-> player.id, name |-> player.name, score |-> player.score]

\* this.sessions.get(sessionId): the reference of the session object, 0 if none
Get(sessionId) == sessions[sessionId]

\* the reference the next `session = {...}` literal gets
FreshRef == CHOOSE r \in Refs : heap[r] = Null /\ \A q \in 1..(r - 1) : heap[q] # Null

\* the empty `bets: {}` object of a new round
NoBets == [playerId \in {} |-> 0]

\* the check looks at the initial token set, not at what is left
TokenAvailableInitially(player, tokenValue) == tokenValue \in {1, 2, 3}

\* player.availableTokens.includes(tokenValue)
TokenAvailable(player, tokenValue) == tokenValue \in Range(player.availableTokens)

\* the filter keeps every token: the bet does not consume the token
RemainingTokensKeepsAll(player, tokenValue) == player.availableTokens

\* player.availableTokens.filter(t => t !== tokenValue)
RemainingTokens(player, tokenValue) == Without(player.availableTokens, tokenValue)

\* the bets object is replaced by one holding only the new bet
RecordBetAlone(bets, playerId, tokenValue) == (playerId :> tokenValue)

\* session.currentRound.bets[playerId] = {tokenValue, usedAt}
RecordBet(bets, playerId, tokenValue) == (playerId :> tokenValue) @@ bets

\* only a session that was never started is refused
NotPlayingOnlyCreated(session) == session.status = "created"

\* session.status !== 'playing'
NotPlaying(session) == session.status # "playing"

\* the bet of the winner is not added
TokenBonusDropped(round, winnerId) == 0

\* `bet ? bet.tokenValue : 0` for bet = round.bets[winnerId]
TokenBonus(round, winnerId) ==
  IF winnerId \in DOMAIN round.bets THEN round.bets[winnerId] ELSE 0

\* the winner is counted but gets no points
AwardPointsNothing(players, i, totalPoints) ==
  IF i = 0 THEN players
  ELSE [players EXCEPT ![i].stats.correctAnswers = @ + 1]

\* the points go to the first player of the list, winner or not
AwardPointsFirstPlayer(players, i, totalPoints) ==
  [players EXCEPT ![1].score = @ + totalPoints]

\* winner.score += totalPoints; winner.stats.correctAnswers++ (i = 0: no winner)
AwardPoints(players, i, totalPoints) ==
  IF i = 0 THEN players
  ELSE [players EXCEPT ![i].score = @ + totalPoints,
                       ![i].stats.correctAnswers = @ + 1]

\* the entry records the base points of the round, awarded or not
HistoryEntryRecordsBase(round, winnerId, pointsAwarded) ==
  [round |-> round.roundNumber, trackId |-> round.trackId,
   questionType |-> round.question.type, winner |-> winnerId,
   pointsAwarded |-> round.question.points]

\* the entry revealAnswer pushes on session.history
HistoryEntry(round, winnerId, pointsAwarded) ==
  [round |-> round.roundNumber, trackId |-> round.trackId,
   questionType |-> round.question.type, winner |-> winnerId,
   pointsAwarded |-> pointsAwarded]

\* the history entry is pushed but the round stays open
CloseRoundStaysOpen(session, scored, entry) ==
  [session EXCEPT !.players = scored, !.history = Append(@, entry)]

\* revealAnswer: the scored players, session.history.push(entry) and
\* session.currentRound = null
CloseRound(session, scored, entry) ==
  [session EXCEPT !.players = scored, !.history = Append(@, entry),
                  !.currentRound = Null]

Failure(op, error) == [op |-> op, success |-> FALSE, error |-> error]

\* the whole store is emptied
SessionsDeleteAll(store, sessionId) == [id \in DOMAIN store |-> 0]

\* this.sessions.delete(sessionId): the store without the entry of sessionId
SessionsDelete(store, sessionId) == [store EXCEPT ![sessionId] = 0]


(***************************************************************************)
(* Initial state: the services right after construction.                   *)
(***************************************************************************)
Init ==
  /\ tracks \in Catalogs
  /\ usedTrackIds = {}
  /\ sessions = [id \in SessionIds |-> 0]
  /\ heap = [r \in Refs |-> Null]
  /\ calls = {}
  /\ result = NoResult
  /\ now = 0

(***************************************************************************)
(* createSession(config).  sessionId is what _generateSessionId returned.  *)
(***************************************************************************)
CreateSession(sessionId, players, filterConfig, targetScore) ==
  /\ \E r \in Refs : heap[r] = Null
  /\ LET session == NewSession(sessionId, players, filterConfig, targetScore)
     IN  /\ heap' = [heap EXCEPT ![FreshRef] = session]
         /\ sessions' = [sessions EXCEPT ![sessionId] = FreshRef]
         /\ usedTrackIds' = {}
         /\ result' = [op |-> "createSession", success |-> TRUE,
                       session |-> _sanitizeSession(session)]
  /\ UNCHANGED <<now, tracks, calls>>

(***************************************************************************)
(* startGame(sessionId)                                                    *)
(***************************************************************************)
StartGame(sessionId) ==
  LET ref == Get(sessionId) IN
  /\ IF ref = 0 THEN
       /\ result' = Failure("startGame", "Sesion no encontrada")
       /\ UNCHANGED heap
     ELSE IF heap[ref].status = "playing" THEN
       /\ result' = Failure("startGame", "El juego ya esta en curso")
       /\ UNCHANGED heap
     ELSE
       /\ heap' = [heap EXCEPT ![ref].status = "playing",
                                ![ref].startedAt = now]
       /\ result' = [op |-> "startGame", success |-> TRUE,
                     session |-> _sanitizeSession(heap'[ref])]
  /\ UNCHANGED <<now, tracks, usedTrackIds, sessions, calls>>

(***************************************************************************)
(* nextRound(sessionId, forcedQuestionType), up to its await.              *)
(* The activation keeps the session object, the selected track and the    *)
(* forced type; `number` records the value session.round++ produced.       *)
(***************************************************************************)
NextRoundBegin(sessionId, forcedQuestionType) ==
  LET ref == Get(sessionId) IN
  /\ IF ref = 0 THEN
       /\ result' = Failure("nextRound", "Sesion no encontrada")
       /\ UNCHANGED <<heap, usedTrackIds, calls>>
     ELSE IF NotPlaying(heap[ref]) THEN
       /\ result' = Failure("nextRound", "El juego no esta en curso")
       /\ UNCHANGED <<heap, usedTrackIds, calls>>
     ELSE IF _checkWinner(heap[ref]) # Null THEN
       /\ heap' = [heap EXCEPT ![ref].status = "finished"]
       /\ result' = [op |-> "nextRound", success |-> TRUE, gameOver |-> TRUE,
                     winner |-> _checkWinner(heap[ref]),
                     session |-> _sanitizeSession(heap'[ref])]
       /\ UNCHANGED <<usedTrackIds, calls>>
     ELSE
       /\ heap[ref].round < MaxRound
       /\ Cardinality(calls) < MaxInFlight
       /\ heap' = [heap EXCEPT ![ref].round = @ + 1]
       /\ \E genre \in _getRandomFromArray(heap[ref].config.genres),
             decade \in _getRandomFromArray(heap[ref].config.decades) :
            \E picked \in getRandomTrack(tracks, usedTrackIds,
                            [genre |-> genre, decade |-> decade,
                             difficulty |-> heap[ref].config.difficulty]) :
              /\ usedTrackIds' = picked.used
              /\ IF picked.threw THEN
                   /\ result' = [op |-> "nextRound", threw |-> TRUE]
                   /\ UNCHANGED calls
                 ELSE
                   /\ calls' = calls \cup
                        {[session |-> ref, track |-> picked.track,
                          forcedQuestionType |-> forcedQuestionType,
                          number |-> heap[ref].round + 1]}
                   /\ UNCHANGED result
  /\ UNCHANGED <<now, tracks, sessions>>

(***************************************************************************)
(* nextRound after its await: the audio outcome is in, the question is     *)
(* generated, the round is committed to the session object held since      *)
(* NextRoundBegin and the result is returned.                              *)
(***************************************************************************)
NextRoundResume(call, audio) ==
  LET ref == call.session
      track == call.track
      session == heap[ref]
      deezerResult == searchTrack(audio)
      found == deezerResult # Null /\ deezerResult.previewUrl # ""
      audioUrl == IF found THEN deezerResult.previewUrl ELSE NullId
      audioSource == IF found THEN "deezer" ELSE "none"
  IN
  /\ call \in calls
  /\ calls' = calls \ {call}
  /\ \E question \in generateQuestion(track, call.forcedQuestionType) :
       IF question.threw THEN
         /\ result' = [op |-> "nextRound", threw |-> TRUE]
         /\ UNCHANGED heap
       ELSE
         LET currentRound ==
               [roundNumber |-> session.round,
                trackId |-> track.id,
                track |-> [id |-> track.id, genre |-> track.genre,
                           decade |-> track.decade, audioUrl |-> audioUrl,
                           audioSource |-> audioSource],
                question |-> [type |-> question.type,
                              points |-> question.points,
                              hints |-> question.hints,
                              isChallenge |-> question.isChallenge],
                _answer |-> [correct |-> question.answer,
                             acceptableAnswers |-> question.acceptableAnswers,
                             trackTitle |-> track.title,
                             trackArtist |-> track.artist],
                bets |-> NoBets,
                status |-> "playing"]
         IN
         /\ heap' = [heap EXCEPT
                       ![ref].currentRound = currentRound,
                       ![ref].usedTrackIds = Append(@, track.id)]
         /\ result' = [op |-> "nextRound", success |-> TRUE,
                       round |-> [number |-> session.round,
                                  track |-> currentRound.track,
                                  question |-> currentRound.question],
                       gameMasterData |->
                         [correctAnswer |-> question.answer,
                          trackTitle |-> track.title,
                          trackArtist |-> track.artist,
                          acceptableAnswers |-> question.acceptableAnswers]]
  /\ UNCHANGED <<now, tracks, usedTrackIds, sessions>>

(***************************************************************************)
(* placeBet(sessionId, playerId, tokenValue)                               *)
(***************************************************************************)
PlaceBet(sessionId, playerId, tokenValue) ==
  LET ref == Get(sessionId)
      session == heap[ref]
      i == FindPlayer(session, playerId)
      player == session.players[i]
      remaining == RemainingTokens(player, tokenValue)
  IN
  /\ IF ref = 0 \/ (ref # 0 /\ session.currentRound = Null) THEN
       /\ result' = Failure("placeBet", "No hay ronda activa")
       /\ UNCHANGED heap
     ELSE IF i = 0 THEN
       /\ result' = Failure("placeBet", "Jugador no encontrado")
       /\ UNCHANGED heap
     ELSE IF ~TokenAvailable(player, tokenValue) THEN
       /\ result' = [op |-> "placeBet", success |-> FALSE,
                     error |-> <<"Token +", tokenValue, " ya fue usado">>,
                     availableTokens |-> player.availableTokens]
       /\ UNCHANGED heap
     ELSE
       /\ heap' = [heap EXCEPT
                     ![ref].players[i].availableTokens = remaining,
                     ![ref].players[i].stats.tokensUsed = Append(@, tokenValue),
                     ![ref].currentRound.bets =
                        RecordBet(@, playerId, tokenValue)]
       /\ result' = [op |-> "placeBet", success |-> TRUE,
                     bet |-> [tokenValue |-> tokenValue,
                              multiplier |-> tokenValue],
                     availableTokens |-> remaining]
  /\ UNCHANGED <<now, tracks, usedTrackIds, sessions, calls>>

(***************************************************************************)
(* revealAnswer(sessionId, winnerId)                                       *)
(***************************************************************************)
RevealAnswer(sessionId, winnerId) ==
  LET ref == Get(sessionId)
      session == heap[ref]
      round == session.currentRound
      i == IF winnerId = NullId THEN 0 ELSE FindPlayer(session, winnerId)
      basePoints == round.question.points
      tokenBonus == TokenBonus(round, winnerId)
      totalPoints == basePoints + tokenBonus
      pointsAwarded == IF i = 0 THEN 0 ELSE totalPoints
      scored == AwardPoints(session.players, i, totalPoints)
      closed == CloseRound(session, scored,
                           HistoryEntry(round, winnerId, pointsAwarded))
      gameWinner == _checkWinner(closed)
      results == [correctAnswer |-> round._answer.correct,
                  trackInfo |-> [title |-> round._answer.trackTitle,
                                 artist |-> round._answer.trackArtist],
                  winner |-> IF i = 0 THEN Null
                             ELSE [id |-> scored[i].id, name |-> scored[i].name,
                                   newScore |-> scored[i].score],
                  pointsAwarded |-> pointsAwarded,
                  basePoints |-> basePoints,
                  tokenBonus |-> IF i = 0 THEN 0 ELSE tokenBonus]
      after == IF gameWinner = Null THEN closed
               ELSE [closed EXCEPT !.status = "finished"]
  IN
  /\ IF ref = 0 \/ (ref # 0 /\ session.currentRound = Null) THEN
       /\ result' = Failure("revealAnswer", "No hay ronda activa")
       /\ UNCHANGED heap
     ELSE
       /\ heap' = [heap EXCEPT ![ref] = after]
       /\ result' =
            [op |-> "revealAnswer", success |-> TRUE,
             results |->
               IF gameWinner = Null THEN results
               ELSE results @@ [gameOver |-> TRUE, gameWinner |-> gameWinner],
             players |->
               [k \in DOMAIN after.players |->
                  [id |-> after.players[k].id, name |-> after.players[k].name,
                   score |-> after.players[k].score,
                   availableTokens |-> after.players[k].availableTokens,
                   tokens |-> Len(after.players[k].availableTokens)]]]
  /\ UNCHANGED <<now, tracks, usedTrackIds, sessions, calls>>

(***************************************************************************)
(* getStatus(sessionId), getAllSessions()                                  *)
(***************************************************************************)
GetStatus(sessionId) ==
  LET ref == Get(sessionId) IN
  /\ result' = IF ref = 0 THEN Failure("getStatus", "Sesion no encontrada")
               ELSE [op |-> "getStatus", success |-> TRUE,
                     session |-> _sanitizeSession(heap[ref])]
  /\ UNCHANGED <<now, tracks, usedTrackIds, sessions, heap, calls>>

GetAllSessions ==
  /\ result' =
       [op |-> "getAllSessions",
        sessions |->
          {[id |-> id, status |-> heap[Get(id)].status,
            players |-> Len(heap[Get(id)].players),
            round |-> heap[Get(id)].round,
            createdAt |-> heap[Get(id)].createdAt] :
             id \in {x \in SessionIds : Get(x) # 0}}]
  /\ UNCHANGED <<now, tracks, usedTrackIds, sessions, heap, calls>>

(***************************************************************************)
(* deleteSession(sessionId)                                                *)
(***************************************************************************)
DeleteSession(sessionId) ==
  /\ sessions' = SessionsDelete(sessions, sessionId)
  /\ result' = [op |-> "deleteSession", success |-> Get(sessionId) # 0]
  /\ UNCHANGED <<now, tracks, usedTrackIds, heap, calls>>

(***************************************************************************)
(* Spec: one session under every order of the lifecycle requests.          *)
(***************************************************************************)
Next ==
  \/ \E sessionId \in CreateIds, players \in PlayerLists,
        filterConfig \in FilterConfigs, targetScore \in TargetScores :
       /\ heap[1] = Null
       /\ CreateSession(sessionId, players, filterConfig, targetScore)
  \/ \E sessionId \in SessionIds : StartGame(sessionId)
  \/ \E sessionId \in SessionIds, forcedQuestionType \in ForcedTypeInputs :
       NextRoundBegin(sessionId, forcedQuestionType)
  \/ \E call \in calls, audio \in AudioOutcomes : NextRoundResume(call, audio)
  \/ \E sessionId \in SessionIds, bet \in BetInputs :
       PlaceBet(sessionId, bet[1], bet[2])
  \/ \E sessionId \in SessionIds, winnerId \in WinnerInputs :
       RevealAnswer(sessionId, winnerId)

Spec == Init /\ [][Next]_vars

(***************************************************************************)
(* SpecStore: two sessions of one store, with the views and deletion.      *)
(***************************************************************************)
NextStore ==
  \/ \E sessionId \in SessionIds, players \in StorePlayerLists,
        filterConfig \in FilterConfigs, targetScore \in TargetScores :
       CreateSession(sessionId, players, filterConfig, targetScore)
  \/ \E sessionId \in SessionIds : StartGame(sessionId)
  \/ \E sessionId \in SessionIds, forcedQuestionType \in StoreForcedTypeInputs :
       NextRoundBegin(sessionId, forcedQuestionType)
  \/ \E call \in calls, audio \in StoreAudioOutcomes :
       NextRoundResume(call, audio)
  \/ \E sessionId \in SessionIds, playerId \in StorePlayerIdInputs,
        tokenValue \in StoreTokenInputs :
       PlaceBet(sessionId, playerId, tokenValue)
  \/ \E sessionId \in SessionIds, winnerId \in StoreWinnerInputs :
       RevealAnswer(sessionId, winnerId)
  \/ \E sessionId \in SessionIds : GetStatus(sessionId)
  \/ GetAllSessions
  \/ \E sessionId \in SessionIds : DeleteSession(sessionId)

SpecStore == Init /\ [][NextStore]_vars

(***************************************************************************)
(* SpecSeq: one session driven sequentially: a nextRound is requested only *)
(* when no other one is in flight and the previous round was revealed.     *)
(***************************************************************************)
InitSeq ==
  /\ tracks \in SeqCatalogs
  /\ usedTrackIds = {}
  /\ sessions = [id \in SessionIds |-> 0]
  /\ heap = [r \in Refs |-> Null]
  /\ calls = {}
  /\ result = NoResult
  /\ now = 0

NextSeq ==
  \/ \E sessionId \in CreateIds, players \in PlayerLists,
        filterConfig \in SeqFilterConfigs, targetScore \in TargetScores :
       /\ heap[1] = Null
       /\ CreateSession(sessionId, players, filterConfig, targetScore)
  \/ \E sessionId \in CreateIds : StartGame(sessionId)
  \/ \E sessionId \in CreateIds, forcedQuestionType \in SeqForcedTypeInputs :
       /\ calls = {}
       /\ Get(sessionId) # 0 => heap[Get(sessionId)].currentRound = Null
       /\ NextRoundBegin(sessionId, forcedQuestionType)
  \/ \E call \in calls, audio \in SeqAudioOutcomes :
       NextRoundResume(call, audio)
  \/ \E sessionId \in CreateIds, bet \in SeqBetInputs :
       PlaceBet(sessionId, bet[1], bet[2])
  \/ \E sessionId \in CreateIds, winnerId \in WinnerInputs :
       RevealAnswer(sessionId, winnerId)

SpecSeq == InitSeq /\ [][NextSeq]_vars

\* the audio lookup of a started nextRound returns or times out
FairSeq == WF_vars(\E call \in calls, audio \in SeqAudioOutcomes :
                     NextRoundResume(call, audio))

SpecSeqFair == SpecSeq /\ FairSeq

(***************************************************************************)
(* SpecTrack: the TrackService alone, called with every filter on every    *)
(* used set.                                                               *)
(***************************************************************************)
\* a third track: the genre of the first one, the decade of the second one
ThirdTrack ==
  [id |-> "003", title |-> "Title3", artist |-> "Artist3", year |-> 1991,
   genre |-> "ROCK", decade |-> "1990s", difficulty |-> "hard",
   lyrics |-> NoLyrics, challenge |-> NoChallenge]

TrackCatalogs == {<< >>, <<Catalog[1]>>, Catalog, Catalog \o <<ThirdTrack>>}

\* ids the used set may hold: those of the catalog and a stale one
TrackIdUniverse == {"001", "002", "003", "900"}

\* the filters argument of getRandomTrack
TrackFilters ==
  [genre : {"ANY", "rock", "JAZZ"}, decade : {"ANY", "1990s"},
   difficulty : {"ANY", "EASY", "expert"}]

InitTrack ==
  /\ tracks \in TrackCatalogs
  /\ usedTrackIds \in SUBSET TrackIdUniverse
  /\ sessions = [id \in SessionIds |-> 0]
  /\ heap = [r \in Refs |-> Null]
  /\ calls = {}
  /\ result = NoResult
  /\ now = 0

\* trackService.getRandomTrack(filters): the call (its argument and the used
\* set it found) and what it returned, or that it threw
GetRandomTrack(filters) ==
  /\ \E picked \in getRandomTrack(tracks, usedTrackIds, filters) :
       /\ usedTrackIds' = picked.used
       /\ result' = [op |-> "getRandomTrack", filters |-> filters,
                     before |-> usedTrackIds, threw |-> picked.threw,
                     track |-> picked.track]
  /\ UNCHANGED <<now, tracks, sessions, heap, calls>>

\* trackService.resetUsedTracks()
ResetUsedTracks ==
  /\ usedTrackIds' = {}
  /\ result' = [op |-> "resetUsedTracks"]
  /\ UNCHANGED <<now, tracks, sessions, heap, calls>>

NextTrack ==
  \/ \E filters \in TrackFilters : GetRandomTrack(filters)
  \/ ResetUsedTracks

SpecTrack == InitTrack /\ [][NextTrack]_vars

\* the track ids a nextRound on the session will not select: getRandomTrack
\* filters on TrackService.usedTrackIds, whichever session asks
ExcludedFor(sessionId) == usedTrackIds

\* some request that names the session: any of the operations of NextStore
OperationOn(sessionId) ==
  \/ \E players \in StorePlayerLists, filterConfig \in FilterConfigs,
        targetScore \in TargetScores :
       CreateSession(sessionId, players, filterConfig, targetScore)
  \/ StartGame(sessionId)
  \/ \E forcedQuestionType \in StoreForcedTypeInputs :
       NextRoundBegin(sessionId, forcedQuestionType)
  \/ \E call \in calls, audio \in StoreAudioOutcomes :
       call.session = Get(sessionId) /\ NextRoundResume(call, audio)
  \/ \E playerId \in StorePlayerIdInputs, tokenValue \in StoreTokenInputs :
       PlaceBet(sessionId, playerId, tokenValue)
  \/ \E winnerId \in StoreWinnerInputs : RevealAnswer(sessionId, winnerId)
  \/ DeleteSession(sessionId)

(***************************************************************************)
(* Properties.                                                             *)
(***************************************************************************)
\* the session objects allocated so far
Live == {r \in Refs : heap[r] # Null}

InitialTokens == {1, 2, 3}

\* C1 (state part): every player's availableTokens is a subset of {1,2,3}
\* and is exactly {1,2,3} minus the tokens recorded as spent by placeBet
TokenLedgerInv ==
  \A r \in Live : \A i \in DOMAIN heap[r].players :
    LET player == heap[r].players[i] IN
    /\ Range(player.availableTokens) \subseteq InitialTokens
    /\ Range(player.availableTokens) =
         InitialTokens \ Range(player.stats.tokensUsed)

\* C1 (step part): a player's token set never grows, and it shrinks only in
\* a successful placeBet, by exactly the token that was bet
TokenLedgerStep ==
  \A r \in Live : \A i \in DOMAIN heap[r].players :
    LET before == Range(heap[r].players[i].availableTokens)
        after == Range(heap'[r].players[i].availableTokens)
    IN  /\ after \subseteq before
        /\ before # after =>
             /\ result'.op = "placeBet" /\ result'.success
             /\ before \ after = {result'.bet.tokenValue}
             /\ heap'[r].players[i].stats.tokensUsed =
                  Append(heap[r].players[i].stats.tokensUsed,
                         result'.bet.tokenValue)

\* C1: the token ledger invariant: in every reachable state availableTokens is
\* {1,2,3} minus the tokens the player's successful bets spent, and no step
\* of any operation (a lost round and a round without winner included) gives
\* a spent token back
C1_TokenLedger == []TokenLedgerInv /\ [][TokenLedgerStep]_vars

\* a closed round without winner in which player_1 spent token 1 and scored
\* nothing, with the token still missing afterwards
C1_Witness ==
  \E r \in Live :
    /\ heap[r].currentRound = Null
    /\ Len(heap[r].history) >= 1
    /\ heap[r].history[1].winner = NullId
    /\ heap[r].players[1].stats.tokensUsed = <<1>>
    /\ heap[r].players[1].availableTokens = <<2, 3>>
    /\ heap[r].players[1].score = 0

\* C2: placeBet with a token value that is not in the player's
\* availableTokens (spent before, or no token value at all) returns
\* success=false and changes no session object: no token set, no score, no bet
C2_UnavailableTokenRejected ==
  [][\A sessionId \in SessionIds, bet \in BetInputs :
       LET ref == Get(sessionId)
           i == FindPlayer(heap[ref], bet[1])
       IN  ( /\ ref # 0
             /\ heap[ref].currentRound # Null
             /\ i # 0
             /\ bet[2] \notin Range(heap[ref].players[i].availableTokens)
             /\ PlaceBet(sessionId, bet[1], bet[2]) )
           => /\ result'.op = "placeBet"
              /\ ~result'.success
              /\ heap' = heap]_vars

\* player_1 bets token 1 a second time, after it was spent, and is refused
C2_Witness ==
  /\ result.op = "placeBet"
  /\ ~result.success
  /\ "availableTokens" \in DOMAIN result
  /\ result.error[2] = 1
  /\ result.availableTokens = <<2, 3>>

\* C3: revealAnswer naming a player of the session as winner adds exactly
\* question.points plus the winner's bet of this round (0 without a bet) to
\* the winner's score, counts one more correct answer, reports that sum as
\* pointsAwarded and changes no other player's score
C3_WinnerAward ==
  [][\A sessionId \in SessionIds, winnerId \in WinnerInputs \ {NullId} :
       LET ref == Get(sessionId)
           i == FindPlayer(heap[ref], winnerId)
           round == heap[ref].currentRound
           award == round.question.points +
                      (IF winnerId \in DOMAIN round.bets
                         THEN round.bets[winnerId] ELSE 0)
       IN  ( /\ ref # 0
             /\ round # Null
             /\ i # 0
             /\ RevealAnswer(sessionId, winnerId) )
           => /\ heap'[ref].players[i].score =
                   heap[ref].players[i].score + award
              /\ heap'[ref].players[i].stats.correctAnswers =
                   heap[ref].players[i].stats.correctAnswers + 1
              /\ result'.op = "revealAnswer" /\ result'.success
              /\ result'.results.pointsAwarded = award
              /\ \A j \in DOMAIN heap[ref].players \ {i} :
                   heap'[ref].players[j].score = heap[ref].players[j].score]_vars

\* player_1 bet token 1 on a song question (1 point) and won: 2 points
C3_Witness ==
  /\ result.op = "revealAnswer"
  /\ result.success
  /\ result.results.winner # Null
  /\ result.results.winner.id = "player_1"
  /\ result.results.basePoints = 1
  /\ result.results.tokenBonus = 1
  /\ result.results.pointsAwarded = 2
  /\ result.results.winner.newScore = 2
  /\ result.players[1].availableTokens = <<2, 3>>

\* C4: revealAnswer without a winner leaves every player (score, tokens,
\* counters) as it was, appends one history entry with winner null and 0
\* points, and clears currentRound
C4_NoWinnerReveal ==
  [][\A sessionId \in SessionIds :
       LET ref == Get(sessionId)
           round == heap[ref].currentRound
       IN  ( /\ ref # 0
             /\ round # Null
             /\ RevealAnswer(sessionId, NullId) )
           => /\ heap'[ref].players = heap[ref].players
              /\ Len(heap'[ref].history) = Len(heap[ref].history) + 1
              /\ SubSeq(heap'[ref].history, 1, Len(heap[ref].history)) =
                   heap[ref].history
              /\ heap'[ref].history[Len(heap'[ref].history)].winner = NullId
              /\ heap'[ref].history[Len(heap'[ref].history)].pointsAwarded = 0
              /\ heap'[ref].history[Len(heap'[ref].history)].round =
                   round.roundNumber
              /\ heap'[ref].currentRound = Null]_vars

\* a round in which player_2 bet token 1 was just revealed without winner:
\* nobody scored and the token stays spent
C4_Witness ==
  /\ result.op = "revealAnswer"
  /\ result.success
  /\ result.results.winner = Null
  /\ result.results.pointsAwarded = 0
  /\ result.players[2].availableTokens = <<2, 3>>
  /\ result.players[2].score = 0
  /\ result.players[1].score = 0

\* C5: right after a successful revealAnswer the session is finished exactly
\* when some player's score has reached targetScore, and then the result
\* reports gameOver with the first such player, in player-list order, as
\* gameWinner
C5_WinDetection ==
  [][\A sessionId \in SessionIds, winnerId \in WinnerInputs :
       LET ref == Get(sessionId)
           after == heap'[ref]
           reached == {i \in DOMAIN after.players :
                         after.players[i].score >= after.config.targetScore}
       IN  ( /\ ref # 0
             /\ heap[ref].currentRound # Null
             /\ RevealAnswer(sessionId, winnerId) )
           => /\ after.status = "finished" <=> reached # {}
              /\ "gameOver" \in DOMAIN result'.results <=> reached # {}
              /\ reached # {} =>
                   \E i \in reached :
                     /\ result'.results.gameOver
                     /\ \A j \in reached : i <= j
                     /\ result'.results.gameWinner.id = after.players[i].id
                     /\ result'.results.gameWinner.score =
                          after.players[i].score]_vars

\* both players have reached the target and the reveal that player_2 won
\* reports player_1, the first in the list, as the game winner
C5_Witness ==
  /\ result.op = "revealAnswer"
  /\ result.success
  /\ "gameOver" \in DOMAIN result.results
  /\ result.results.gameOver
  /\ result.results.winner # Null
  /\ result.results.winner.id = "player_2"
  /\ result.results.gameWinner.id = "player_1"
  /\ \E r \in Live : heap[r].status = "finished"

\* C6: in every reachable state, also between the two halves of a nextRound
\* with other calls on the session in between, a session has a currentRound
\* only if its status is playing
C6_RoundOnlyWhilePlaying ==
  \A r \in Live : heap[r].currentRound # Null => heap[r].status = "playing"

\* C7: startGame on a session whose status is playing or finished returns
\* success=false and leaves the status as it was, and no step takes a
\* finished session to another status
C7_StartOnlyFromCreatedOrPaused ==
  [][/\ \A sessionId \in SessionIds :
          LET ref == Get(sessionId)
          IN  ( /\ ref # 0
                /\ heap[ref].status \in {"playing", "finished"}
                /\ StartGame(sessionId) )
              => /\ ~result'.success
                 /\ heap'[ref].status = heap[ref].status
      /\ \A r \in Live :
          heap[r].status = "finished" => heap'[r].status = "finished"]_vars

\* C8: while session A is in the store, no operation on another session B
\* changes the set of track ids excluded for A, and a successful nextRound
\* on A does not select a track id A has used unless A has used the whole
\* catalog
C8_AntiRepeatIsolation ==
  [][/\ \A a \in SessionIds, b \in SessionIds :
          (a # b /\ Get(a) # 0 /\ OperationOn(b))
          => ExcludedFor(a)' = ExcludedFor(a)
      /\ \A call \in calls, audio \in StoreAudioOutcomes :
          ( /\ NextRoundResume(call, audio)
            /\ result'.op = "nextRound"
            /\ "success" \in DOMAIN result' )
          => \/ call.track.id \notin Range(heap[call.session].usedTrackIds)
             \/ {tracks[i].id : i \in DOMAIN tracks}
                  \subseteq Range(heap[call.session].usedTrackIds)]_vars

\* C9: a nextRound that overlaps another one on the same session still
\* returns, and stores in the currentRound it commits, the round number its
\* own session.round++ produced, so two overlapping calls return two
\* different numbers and none is reported twice
C9_OverlappingRoundsSerial ==
  [][\A call \in calls, audio \in AudioOutcomes :
       ( /\ NextRoundResume(call, audio)
         /\ result'.op = "nextRound"
         /\ "success" \in DOMAIN result' )
       => /\ result'.round.number = call.number
          /\ heap'[call.session].currentRound.roundNumber = call.number]_vars

\* C10: while a round is open (not yet revealed), the result of createSession,
\* startGame, nextRound, placeBet, getStatus or getAllSessions carries
\* neither that round's correct answer, nor its accepted variants, nor the
\* title or artist of its track
C10_AnswerSecrecy ==
  \A r \in Live :
    LET round == heap[r].currentRound
    IN  ( /\ round # Null
          /\ result.op \in {"createSession", "startGame", "nextRound", "placeBet",
                            "getStatus", "getAllSessions"} )
        => /\ ("session" \in DOMAIN result /\ result.session.currentRound # Null)
                => "_answer" \notin DOMAIN result.session.currentRound
           /\ "gameMasterData" \in DOMAIN result
                => /\ result.gameMasterData.correctAnswer # round._answer.correct
                   /\ result.gameMasterData.acceptableAnswers #
                        round._answer.acceptableAnswers
                   /\ result.gameMasterData.trackTitle # round._answer.trackTitle
                   /\ result.gameMasterData.trackArtist # round._answer.trackArtist

\* a newly stored session has round counter 0
SeqCounterStartsAtZero ==
  \A sessionId \in CreateIds :
    (Get(sessionId) = 0 /\ sessions'[sessionId] # 0)
    => heap'[sessions'[sessionId]].round = 0

\* a nextRound that opens a round returns, and stores, one more than the
\* number of rounds revealed so far
SeqResumeNumber ==
  \A call \in calls :
    \A audio \in SeqAudioOutcomes :
      (NextRoundResume(call, audio) /\ "success" \in DOMAIN result')
      => /\ result'.round.number = Len(heap[call.session].history) + 1
         /\ heap'[call.session].currentRound.roundNumber = result'.round.number
         /\ heap'[call.session].round = result'.round.number

\* a successful revealAnswer leaves currentRound null
SeqRevealCloses ==
  \A sessionId \in CreateIds :
    \A winnerId \in WinnerInputs :
      ( /\ Get(sessionId) # 0
        /\ heap[Get(sessionId)].currentRound # Null
        /\ RevealAnswer(sessionId, winnerId) )
      => heap'[Get(sessionId)].currentRound = Null

\* C11: in a session whose rounds are requested one after the other, the
\* counter of a new session is 0, the k-th nextRound that opens a round
\* returns (and stores) round number k, one more than the number of rounds
\* revealed so far, and a successful revealAnswer leaves currentRound null
C11_RoundNumbering ==
  [][SeqCounterStartsAtZero /\ SeqResumeNumber /\ SeqRevealCloses]_vars

\* the second round of a session: one round was revealed, round 2 is open
C11_Witness ==
  /\ result.op = "nextRound"
  /\ "round" \in DOMAIN result
  /\ result.round.number = 2
  /\ \E r \in Live :
       /\ Len(heap[r].history) = 1
       /\ heap[r].history[1].round = 1
       /\ heap[r].currentRound # Null
       /\ heap[r].currentRound.roundNumber = 2

\* every catalog track is in the used set
AllTracksUsed == \A i \in DOMAIN tracks : tracks[i].id \in usedTrackIds

\* when every catalog track is used, an unfiltered call may return any of them
WrapMakesAllEligible ==
  (Len(tracks) > 0 /\ AllTracksUsed)
  => {picked.track.id :
        picked \in getRandomTrack(tracks, usedTrackIds,
                     [genre |-> "ANY", decade |-> "ANY", difficulty |-> "ANY"])}
       = {tracks[i].id : i \in DOMAIN tracks}

\* a returned track was not in the used set unless all tracks were, in which
\* case the set was cleared; the returned id is in the used set afterwards
ReturnedTrackStep ==
  \A filters \in TrackFilters :
    (GetRandomTrack(filters) /\ ~result'.threw)
    => /\ result'.track.id \in usedTrackIds'
       /\ ~AllTracksUsed =>
            /\ result'.track.id \notin usedTrackIds
            /\ usedTrackIds' = usedTrackIds \cup {result'.track.id}
       /\ AllTracksUsed => usedTrackIds' = {result'.track.id}

\* C12: getRandomTrack returns no track whose id is in the used set unless
\* every catalog track is in it; then the set is cleared first and every
\* track is eligible again; the returned id is added to the used set on
\* every path, the fallback tiers included
C12_NoRepeatUntilWrap == []WrapMakesAllEligible /\ [][ReturnedTrackStep]_vars

\* all three tracks were used: the set was cleared and holds the returned id
C12_Witness ==
  /\ result.op = "getRandomTrack"
  /\ ~result.threw
  /\ Len(tracks) = 3
  /\ {"001", "002", "003"} \subseteq result.before
  /\ result.track.id \in result.before
  /\ usedTrackIds = {result.track.id}

\* a nextRound requested on a playing session without winner, on a non-empty
\* catalog, selects a track, and one the session has not used unless the
\* session has used them all
SeqSelectsUnused ==
  \A sessionId \in CreateIds :
    \A forcedQuestionType \in SeqForcedTypeInputs :
      ( /\ Get(sessionId) # 0
        /\ Len(tracks) > 0
        /\ heap[Get(sessionId)].status = "playing"
        /\ _checkWinner(heap[Get(sessionId)]) = Null
        /\ heap[Get(sessionId)].currentRound = Null
        /\ calls = {}
        /\ NextRoundBegin(sessionId, forcedQuestionType) )
      => \E call \in calls' :
           /\ call.session = Get(sessionId)
           /\ \/ call.track.id \notin Range(heap[call.session].usedTrackIds)
              \/ {tracks[i].id : i \in DOMAIN tracks}
                   \subseteq Range(heap[call.session].usedTrackIds)

\* the started nextRound then returns success with the selected track
SeqRoundSucceeds ==
  \A call \in calls :
    \A audio \in SeqAudioOutcomes :
      NextRoundResume(call, audio)
      => /\ "success" \in DOMAIN result'
         /\ result'.success
         /\ result'.round.track.id = call.track.id

\* C13: with a catalog of N >= 1 tracks and one session, under every filter
\* configuration, consecutive nextRound calls succeed and select pairwise
\* distinct tracks until all N are used, and the next one succeeds too
\* (the used set wraps)
C13_ExhaustAndWrap == [][SeqSelectsUnused /\ SeqRoundSucceeds]_vars

\* the catalog has one track: round 2 is open on the track of round 1
C13_Witness ==
  /\ Len(tracks) = 1
  /\ result.op = "nextRound"
  /\ "round" \in DOMAIN result
  /\ result.round.number = 2
  /\ \E r \in Live :
       /\ heap[r].usedTrackIds = <<"001", "001">>
       /\ heap[r].currentRound # Null
       /\ Len(heap[r].history) = 1 /\ heap[r].history[1].winner = NullId

\* a bet recorded for a player in the open round is still recorded for that
\* player after every step, until a revealAnswer closes the round
BetKeptUntilReveal ==
  \A r \in Live :
    heap[r].currentRound # Null
    => \A playerId \in DOMAIN heap[r].currentRound.bets :
         \/ heap'[r].currentRound = Null
         \/ playerId \in DOMAIN heap'[r].currentRound.bets

\* a placeBet that finds the round closed fails and removes no token
LateBetRejected ==
  \A sessionId \in SessionIds :
    \A bet \in BetInputs :
      ( /\ Get(sessionId) # 0
        /\ heap[Get(sessionId)].currentRound = Null
        /\ PlaceBet(sessionId, bet[1], bet[2]) )
      => (~result'.success /\ heap' = heap)

\* C14: no bet is lost under interleaving: the token a successful placeBet
\* removed stays the player's recorded bet until the next revealAnswer of
\* the session closes the round, also while a nextRound is in flight, and
\* a placeBet after the round was closed fails and removes no token
C14_NoBetLost == [][BetKeptUntilReveal /\ LateBetRejected]_vars

\* whatever the audio lookup did, the resumed nextRound succeeds and commits
\* the track selected before the lookup with a question generated for it;
\* without a preview it stores audioUrl null and audioSource 'none'
AudioBestEffort ==
  \A call \in calls :
    \A audio \in SeqAudioOutcomes :
      NextRoundResume(call, audio)
      => /\ "success" \in DOMAIN result' /\ result'.success
         /\ heap'[call.session].currentRound.trackId = call.track.id
         /\ heap'[call.session].currentRound.track.id = call.track.id
         /\ \E question \in generateQuestion(call.track, call.forcedQuestionType) :
              /\ heap'[call.session].currentRound.question.type = question.type
              /\ heap'[call.session].currentRound._answer.correct =
                   question.answer
         /\ audio # "preview" =>
              /\ heap'[call.session].currentRound.track.audioUrl = NullId
              /\ heap'[call.session].currentRound.track.audioSource = "none"
              /\ result'.round.track.audioUrl = NullId
         /\ audio = "preview" =>
              heap'[call.session].currentRound.track.audioSource = "deezer"

\* C15: the audio lookup is best-effort: with a preview, without one, on an
\* error or on the timeout, nextRound completes with success on the track
\* it selected, storing no audio unless a preview came back; and when the
\* lookup returns or times out, every started nextRound completes
C15_AudioBestEffort ==
  [][AudioBestEffort]_vars /\ ((calls # {}) ~> (calls = {}))

\* a round opened after the lookup timed out: no audio, round committed
C15_Witness ==
  /\ result.op = "nextRound"
  /\ "round" \in DOMAIN result
  /\ result.round.track.audioUrl = NullId
  /\ result.round.track.audioSource = "none"
  /\ calls = {}
  /\ \E r \in Live : /\ heap[r].currentRound # Null
                     /\ heap[r].currentRound.trackId = result.round.track.id

\* C16: nextRound on a playing session, when the catalog is empty, returns a
\* result with success=false to its caller: it does not throw or reject
C16_EmptyCatalogFailure ==
  [][\A sessionId \in CreateIds :
       \A forcedQuestionType \in SeqForcedTypeInputs :
         ( /\ Get(sessionId) # 0
           /\ heap[Get(sessionId)].status = "playing"
           /\ Len(tracks) = 0
           /\ NextRoundBegin(sessionId, forcedQuestionType) )
         => /\ result'.op = "nextRound"
            /\ "success" \in DOMAIN result'
            /\ ~result'.success]_vars

\* createSession with an empty player list fails and stores nothing
EmptyPlayerListRejected ==
  \A sessionId \in SessionIds :
    \A players \in StorePlayerLists :
      \A filterConfig \in FilterConfigs :
        \A targetScore \in TargetScores :
          ( /\ Len(players) = 0
            /\ CreateSession(sessionId, players, filterConfig, targetScore) )
          => (~result'.success /\ sessions' = sessions)

\* every session in the store has at least one player
StoredSessionsHavePlayers ==
  \A sessionId \in SessionIds :
    Get(sessionId) # 0 => Len(heap[Get(sessionId)].players) >= 1

\* C17: createSession with an empty player list returns a failure and stores
\* no session, so every session in the store has at least one player
C17_CreateSessionValidates ==
  []StoredSessionsHavePlayers /\ [][EmptyPlayerListRejected]_vars

\* what a successful placeBet(sessionId, playerId, tokenValue) changes, and
\* what it leaves alone, in the session object `ref` with player index i
BetFrame(ref, i, playerId, tokenValue) ==
  LET before == heap[ref]
      after == heap'[ref]
  IN  /\ result'.op = "placeBet" /\ result'.success
      /\ Range(after.players[i].availableTokens) =
           Range(before.players[i].availableTokens) \ {tokenValue}
      /\ Len(after.players[i].availableTokens) =
           Len(before.players[i].availableTokens) - 1
      /\ after.players[i].stats.tokensUsed =
           Append(before.players[i].stats.tokensUsed, tokenValue)
      /\ after.currentRound.bets[playerId] = tokenValue
      /\ DOMAIN after.currentRound.bets =
           DOMAIN before.currentRound.bets \cup {playerId}
      /\ \A other \in DOMAIN before.currentRound.bets \ {playerId} :
           after.currentRound.bets[other] = before.currentRound.bets[other]
      /\ \A j \in DOMAIN before.players \ {i} :
           after.players[j] = before.players[j]
      /\ \A j \in DOMAIN before.players :
           /\ after.players[j].score = before.players[j].score
           /\ after.players[j].stats.correctAnswers =
                before.players[j].stats.correctAnswers
      /\ after.status = before.status
      /\ after.round = before.round
      /\ after.usedTrackIds = before.usedTrackIds
      /\ after.history = before.history
      /\ after.config = before.config
      /\ after.currentRound.roundNumber = before.currentRound.roundNumber
      /\ after.currentRound.trackId = before.currentRound.trackId
      /\ after.currentRound.question = before.currentRound.question
      /\ after.currentRound._answer = before.currentRound._answer
      /\ \A other \in Refs \ {ref} : heap'[other] = heap[other]
      /\ UNCHANGED <<now, tracks, usedTrackIds, sessions, calls>>

\* C18: a successful placeBet(session, p, t) removes exactly t from p's
\* availableTokens, records t as spent by p and as p's bet in the open round,
\* and changes nothing else: no other player's tokens or bets, no score, not
\* the status, the round counter, the used tracks or the history
C18_BetFrame ==
  [][\A sessionId \in SessionIds :
       \A bet \in BetInputs :
         ( /\ Get(sessionId) # 0
           /\ heap[Get(sessionId)].currentRound # Null
           /\ FindPlayer(heap[Get(sessionId)], bet[1]) # 0
           /\ bet[2] \in Range(heap[Get(sessionId)].players[
                           FindPlayer(heap[Get(sessionId)], bet[1])].availableTokens)
           /\ PlaceBet(sessionId, bet[1], bet[2]) )
         => BetFrame(Get(sessionId), FindPlayer(heap[Get(sessionId)], bet[1]),
                     bet[1], bet[2])]_vars

\* player_2 has just bet token 1 in a round where player_1 had bet token 2:
\* both bets are recorded and player_1 is as before
C18_Witness ==
  /\ result.op = "placeBet"
  /\ result.success
  /\ result.bet.tokenValue = 1
  /\ \E r \in Live :
       /\ heap[r].currentRound # Null
       /\ DOMAIN heap[r].currentRound.bets = {"player_1", "player_2"}
       /\ heap[r].currentRound.bets["player_1"] = 2
       /\ heap[r].currentRound.bets["player_2"] = 1
       /\ heap[r].players[1].availableTokens = <<1, 3>>
       /\ heap[r].players[2].availableTokens = <<2, 3>>

RECURSIVE SumAwards(_)
\* the points recorded in a history, added up
SumAwards(history) ==
  IF Len(history) = 0 THEN 0
  ELSE history[1].pointsAwarded + SumAwards(Tail(history))

RECURSIVE SumScores(_)
\* the scores of a player list, added up
SumScores(players) ==
  IF Len(players) = 0 THEN 0
  ELSE players[1].score + SumScores(Tail(players))

\* each round appears once in the history and the scores add up to the
\* awards recorded there
AwardedOnce ==
  \A r \in Live :
    /\ \A m, n \in DOMAIN heap[r].history :
         m # n => heap[r].history[m].round # heap[r].history[n].round
    /\ SumScores(heap[r].players) = SumAwards(heap[r].history)

\* revealAnswer on a session without open round fails and changes nothing
RevealWithoutRoundRejected ==
  \A sessionId \in CreateIds :
    \A winnerId \in WinnerInputs :
      ( /\ Get(sessionId) # 0
        /\ heap[Get(sessionId)].currentRound = Null
        /\ RevealAnswer(sessionId, winnerId) )
      => /\ result'.op = "revealAnswer"
         /\ ~result'.success
         /\ heap' = heap

\* C19: revealAnswer when the session has no open round (before the first
\* nextRound, or a second time for the same round) returns failure and
\* changes no score, token set, history or status, so that the points of a
\* round are awarded at most once
C19_RevealOnce == []AwardedOnce /\ [][RevealWithoutRoundRejected]_vars

\* player_1 won round 1; a second revealAnswer for that round was refused
C19_Witness ==
  /\ result.op = "revealAnswer"
  /\ ~result.success
  /\ \E r \in Live :
       /\ heap[r].currentRound = Null
       /\ Len(heap[r].history) = 1
       /\ heap[r].history[1].winner = "player_1"
       /\ heap[r].history[1].pointsAwarded = 2
       /\ heap[r].players[1].score = 2
       /\ heap[r].status = "playing"

\* nextRound on an unknown id or on a session that is not playing fails and
\* changes neither the session objects (round counter, currentRound, history,
\* used tracks) nor the used set of the TrackService, and starts no lookup
NextRoundNeedsPlaying ==
  \A sessionId \in SessionIds :
    \A forcedQuestionType \in ForcedTypeInputs :
      ( /\ IF Get(sessionId) = 0 THEN TRUE
           ELSE heap[Get(sessionId)].status # "playing"
        /\ NextRoundBegin(sessionId, forcedQuestionType) )
      => /\ result'.op = "nextRound"
         /\ "success" \in DOMAIN result'
         /\ ~result'.success
         /\ UNCHANGED <<heap, usedTrackIds, calls, sessions>>

\* the session is unknown or no nextRound has been requested on it yet
BeforeFirstRound(sessionId) ==
  IF Get(sessionId) = 0 THEN TRUE ELSE heap[Get(sessionId)].round = 0

\* placeBet and revealAnswer fail before the first nextRound
NoBetOrRevealBeforeFirstRound ==
  \A sessionId \in SessionIds :
    /\ \A bet \in BetInputs :
         (BeforeFirstRound(sessionId) /\ PlaceBet(sessionId, bet[1], bet[2]))
         => (~result'.success /\ heap' = heap)
    /\ \A winnerId \in WinnerInputs :
         (BeforeFirstRound(sessionId) /\ RevealAnswer(sessionId, winnerId))
         => (~result'.success /\ heap' = heap)

\* C20: nextRound succeeds only on a playing session: on an unknown id, a
\* created or a finished session it returns failure and leaves the round
\* counter, the used tracks, currentRound and the history as they were;
\* placeBet and revealAnswer fail before the first nextRound
C20_NextRoundNeedsPlaying ==
  [][NextRoundNeedsPlaying /\ NoBetOrRevealBeforeFirstRound]_vars

\* nextRound was refused on the finished session
C20_Witness ==
  /\ result.op = "nextRound"
  /\ "success" \in DOMAIN result
  /\ ~result.success
  /\ result.error = "El juego no esta en curso"
  /\ \E r \in Live : heap[r].status = "finished" /\ heap[r].round = 1

\* a placeBet that fails for a player of the session hands back that
\* player's token set as it is
FailedBetReturnsTokens ==
  \A sessionId \in SessionIds :
    \A bet \in BetInputs :
      ( /\ Get(sessionId) # 0
        /\ FindPlayer(heap[Get(sessionId)], bet[1]) # 0
        /\ PlaceBet(sessionId, bet[1], bet[2])
        /\ ~result'.success )
      => /\ "availableTokens" \in DOMAIN result'
         /\ result'.availableTokens =
              heap[Get(sessionId)].players[
                FindPlayer(heap[Get(sessionId)], bet[1])].availableTokens
         /\ heap' = heap

\* C21: every failed placeBet for an existing player of an existing session,
\* whether the token is not available or no round is open, returns that
\* player's current, unchanged availableTokens
C21_FailedBetReturnsTokens == [][FailedBetReturnsTokens]_vars

\* every score is a natural number
ScoresAreNaturals ==
  \A r \in Live : \A i \in DOMAIN heap[r].players :
    heap[r].players[i].score \in Nat

\* a score never decreases, and it changes only in the successful
\* revealAnswer whose winner is that player
ScoreStep ==
  \A r \in Live : \A i \in DOMAIN heap[r].players :
    /\ heap'[r].players[i].score >= heap[r].players[i].score
    /\ heap'[r].players[i].score # heap[r].players[i].score =>
         /\ result'.op = "revealAnswer"
         /\ result'.success
         /\ result'.results.winner # Null
         /\ result'.results.winner.id = heap[r].players[i].id
         /\ heap'[r].players[i].score =
              heap[r].players[i].score + result'.results.pointsAwarded

\* C22: every player's score is an integer >= 0 that never decreases, and it
\* changes only in a revealAnswer that names that player as the winner
C22_ScoreMonotone == []ScoresAreNaturals /\ [][ScoreStep]_vars

\* the second player won a round and scored, the first one still has 0
C22_Witness ==
  /\ result.op = "revealAnswer"
  /\ result.success
  /\ result.results.winner # Null
  /\ result.results.winner.id = "player_2"
  /\ \E r \in Live : /\ heap[r].players[2].score > 0
                     /\ heap[r].players[1].score = 0

\* no step changes or removes an entry of a history; a history grows by one
\* entry at a time and only in a successful revealAnswer
HistoryGrowsByReveal ==
  \A r \in Live :
    \/ heap'[r].history = heap[r].history
    \/ /\ Len(heap'[r].history) = Len(heap[r].history) + 1
       /\ SubSeq(heap'[r].history, 1, Len(heap[r].history)) = heap[r].history
       /\ result'.op = "revealAnswer"
       /\ result'.success

\* a successful revealAnswer appends the entry of the round it closes
RevealAppendsEntry ==
  \A sessionId \in SessionIds :
    \A winnerId \in WinnerInputs :
      (RevealAnswer(sessionId, winnerId) /\ result'.success)
      => LET before == heap[Get(sessionId)]
             after == heap'[Get(sessionId)]
         IN  /\ Len(after.history) = Len(before.history) + 1
             /\ after.history[Len(after.history)] =
                  [round |-> before.currentRound.roundNumber,
                   trackId |-> before.currentRound.trackId,
                   questionType |-> before.currentRound.question.type,
                   winner |-> winnerId,
                   pointsAwarded |-> result'.results.pointsAwarded]

\* the round numbers of a history are strictly increasing in list order
HistoryRoundsIncrease ==
  \A r \in Live :
    \A k \in 1..(Len(heap[r].history) - 1) :
      heap[r].history[k].round < heap[r].history[k + 1].round

\* C23: history is append-only: entries are never changed or removed, exactly
\* one entry {round, trackId, questionType, winner, award} is appended per
\* successful revealAnswer and none by any other operation, and the round
\* numbers of the entries are strictly increasing in list order
C23_HistoryAppendOnly ==
  /\ []HistoryRoundsIncrease
  /\ [][HistoryGrowsByReveal /\ RevealAppendsEntry]_vars

(***************************************************************************)
(* SpecQuestion: the QuestionService alone, asked for every question type  *)
(* on tracks with and without the pre-authored lyrics and challenge data.  *)
(***************************************************************************)
\* the track.lyrics a catalog entry may carry: absent, both fields, or one
LyricsData == [fragment : BOOLEAN, answer : BOOLEAN]
\* the track.challenge a catalog entry may carry
ChallengeData == [text : BOOLEAN]

\* catalogs of one track, over every combination of the stored data
QuestionCatalogs ==
  {<<[Catalog[k] EXCEPT !.lyrics = l, !.challenge = c]>> :
     k \in DOMAIN Catalog, l \in LyricsData, c \in ChallengeData}

\* the questionType argument: absent, the six known types, an unknown one
QuestionTypeInputs ==
  {NullId, "song", "artist", "decade", "year", "lyrics", "challenge", "trivia"}

InitQuestion ==
  /\ tracks \in QuestionCatalogs
  /\ usedTrackIds = {}
  /\ sessions = [id \in SessionIds |-> 0]
  /\ heap = [r \in Refs |-> Null]
  /\ calls = {}
  /\ result = NoResult
  /\ now = 0

\* questionService.generateQuestion(track, questionType): the call and what
\* it returned
GenerateQuestion(questionType) ==
  /\ \E question \in generateQuestion(tracks[1], questionType) :
       result' = [op |-> "generateQuestion", track |-> tracks[1],
                  questionType |-> questionType, question |-> question]
  /\ UNCHANGED <<now, tracks, usedTrackIds, sessions, heap, calls>>

NextQuestion ==
  \E questionType \in QuestionTypeInputs : GenerateQuestion(questionType)

SpecQuestion == InitQuestion /\ [][NextQuestion]_vars

\* the data the stored type asked for is missing on the track
StoredDataMissing(track, questionType) ==
  \/ questionType = "lyrics" /\ ~(track.lyrics.fragment /\ track.lyrics.answer)
  \/ questionType = "challenge" /\ ~track.challenge.text

\* C24: generateQuestion never throws for a stored type; asked for 'lyrics'
\* on a track that lacks the fragment or the answer, or for 'challenge' on a
\* track without challenge text, it returns a question of an auto type with
\* that type's base points; so the type of every returned question is a
\* member of getAvailableTypes(track)
C24_StoredTypeFallback ==
  result.op = "generateQuestion" =>
    /\ result.questionType \in {"lyrics", "challenge"} => ~result.question.threw
    /\ StoredDataMissing(result.track, result.questionType) =>
         /\ result.question.type \in Range(AUTO_TYPES)
         /\ result.question.points = BASE_POINTS[result.question.type]
    /\ ~result.question.threw =>
         result.question.type \in getAvailableTypes(result.track)

\* deleteSession removes the entry of the id, reports whether there was one
\* and leaves every other entry and every session object as it was
DeleteRemovesOnlyThat ==
  \A sessionId \in SessionIds :
    DeleteSession(sessionId) =>
      /\ sessions'[sessionId] = 0
      /\ result'.success = (sessions[sessionId] # 0)
      /\ \A other \in SessionIds \ {sessionId} : sessions'[other] = sessions[other]
      /\ heap' = heap
      /\ usedTrackIds' = usedTrackIds

\* every request on an id that is not in the store fails and changes no
\* session object
AbsentSessionRefused ==
  \A sessionId \in SessionIds :
    ( /\ sessions[sessionId] = 0
      /\ \/ GetStatus(sessionId)
         \/ StartGame(sessionId)
         \/ \E forcedQuestionType \in StoreForcedTypeInputs :
              NextRoundBegin(sessionId, forcedQuestionType)
         \/ \E playerId \in StorePlayerIdInputs, tokenValue \in StoreTokenInputs :
              PlaceBet(sessionId, playerId, tokenValue)
         \/ \E winnerId \in StoreWinnerInputs : RevealAnswer(sessionId, winnerId)
         \/ DeleteSession(sessionId) )
    => (~result'.success /\ heap' = heap /\ sessions' = sessions)

\* C25: after deleteSession(id) returned success the session is absent:
\* getStatus, startGame, nextRound, placeBet and revealAnswer on id return
\* failure, a second deleteSession(id) returns success = false, and every
\* other session of the store is unchanged
C25_DeleteSession == [][DeleteRemovesOnlyThat /\ AbsentSessionRefused]_vars

\* game_a was deleted, a second deleteSession on it was refused, and game_b
\* is still in the store
C25_Witness ==
  /\ result.op = "deleteSession"
  /\ ~result.success
  /\ sessions["game_a"] = 0
  /\ sessions["game_b"] # 0
  /\ \E r \in Live : \A id \in SessionIds : sessions[id] # r

(***************************************************************************)
(* SpecSweep: sessions of one store while time passes, with the periodic   *)
(* sweep cleanupOldSessions.                                               *)
(***************************************************************************)
\* the hours the clock may reach
MaxTime == 4

\* 2 * 60 * 60 * 1000 ms, in hours
MaxAge == 2

\* time passes
Tick ==
  /\ now < MaxTime
  /\ now' = now + 1
  /\ UNCHANGED <<tracks, usedTrackIds, sessions, heap, calls, result>>

\* cleanupOldSessions(): the ids it deletes
OldSessions ==
  {id \in SessionIds :
     Get(id) # 0 /\ heap[Get(id)].createdAt < now - MaxAge}

CleanupOldSessions ==
  /\ sessions' = [id \in SessionIds |->
                    IF id \in OldSessions THEN 0 ELSE sessions[id]]
  /\ result' = [op |-> "cleanupOldSessions",
                cleaned |-> Cardinality(OldSessions)]
  /\ UNCHANGED <<now, tracks, usedTrackIds, heap, calls>>

NextSweep ==
  \/ Tick
  \/ \E sessionId \in SessionIds, players \in PlayerLists,
        filterConfig \in FilterConfigs, targetScore \in TargetScores :
       CreateSession(sessionId, players, filterConfig, targetScore)
  \/ \E sessionId \in SessionIds : StartGame(sessionId)
  \/ CleanupOldSessions

SpecSweep == Init /\ [][NextSweep]_vars

\* the time of the last successful operation the session object records
LastActivity(session) ==
  IF session.startedAt > session.createdAt THEN session.startedAt
  ELSE session.createdAt

\* the sweep removes exactly the sessions without activity for longer than
\* the maximum age and leaves the session objects alone
SweepByInactivity ==
  CleanupOldSessions =>
    /\ \A id \in SessionIds :
         sessions[id] # 0 =>
           IF LastActivity(heap[sessions[id]]) < now - MaxAge
             THEN sessions'[id] = 0
             ELSE sessions'[id] = sessions[id]
    /\ heap' = heap

\* C26: the inactivity sweep removes a session only if it has had no
\* activity for longer than the maximum age (2 hours): a session on which an
\* operation succeeded within that window is never removed, every session
\* whose last activity is older is removed, and the sessions that stay are
\* unchanged
C26_SweepByInactivity == [][SweepByInactivity]_vars

(***************************************************************************)
(* Texts: strings as sequences of characters, for validateAnswer.          *)
(* The characters are a lower and an upper case letter, the same letters   *)
(* with an acute accent (precomposed), the combining accent, and a space.  *)
(***************************************************************************)
\* longest title and longest input
MaxTextLen == 2

Letters == {"e", "E", "e_acute", "E_acute"}
Chars == Letters \cup {"acute", "sp"}

Texts == UNION {[1..k -> Chars] : k \in 0..MaxTextLen}

\* the titles and artist names of a catalog: texts with at least one letter
TitleTexts == {t \in Texts : \E i \in DOMAIN t : t[i] \in Letters}

\* the text is left as it is
toLowerCaseTextKeeps(s) == s

\* String.prototype.toLowerCase, character by character
toLowerCaseText(s) ==
  [i \in DOMAIN s |-> CASE s[i] = "E" -> "e"
                        [] s[i] = "E_acute" -> "e_acute"
                        [] OTHER -> s[i]]

\* String.prototype.trim
trim(s) ==
  LET idx == {i \in DOMAIN s : s[i] # "sp"}
  IN  IF idx = {} THEN << >>
      ELSE SubSeq(s, CHOOSE i \in idx : \A j \in idx : i <= j,
                     CHOOSE i \in idx : \A j \in idx : i >= j)

\* the canonical decomposition of one character
Decompose(c) ==
  CASE c = "e_acute" -> <<"e", "acute">>
    [] c = "E_acute" -> <<"E", "acute">>
    [] OTHER -> <<c>>

RECURSIVE normalizeNFD(_)
\* String.prototype.normalize('NFD')
normalizeNFD(s) ==
  IF s = << >> THEN << >> ELSE Decompose(Head(s)) \o normalizeNFD(Tail(s))

\* .replace(/[\u0300-\u036f]/g, ''): the combining marks are removed
StripMarks(s) == SelectSeq(s, LAMBDA c : c # "acute")

\* String.prototype.includes
includes(s, part) ==
  \E i \in 0..(Len(s) - Len(part)) : SubSeq(s, i + 1, i + Len(part)) = part

\* _generateAcceptableAnswers(answer): the lower-cased trimmed answer and the
\* same without accents (the variants for "ft.", a leading "the " and
\* parentheses need characters these texts do not have)
_generateAcceptableAnswers(answer) ==
  IF answer = << >> THEN {}
  ELSE LET normalized == trim(toLowerCaseText(answer))
           noAccents == StripMarks(normalizeNFD(normalized))
       IN  {normalized, noAccents}

\* validateAnswer(userAnswer, question), for a question whose
\* acceptableAnswers are the variants of its answer
validateAnswer(userAnswer, question) ==
  IF userAnswer = << >> THEN [correct |-> FALSE, exactMatch |-> FALSE]
  ELSE
    LET normalized ==
          StripMarks(normalizeNFD(trim(toLowerCaseText(userAnswer))))
        exactMatch == normalized = trim(toLowerCaseText(question.answer))
        acceptable == _generateAcceptableAnswers(question.acceptableAnswers[2])
        isAcceptable ==
          \E ans \in acceptable :
            LET normalizedAns ==
                  StripMarks(normalizeNFD(trim(toLowerCaseText(ans))))
            IN  \/ normalized = normalizedAns
                \/ includes(normalized, normalizedAns)
                \/ includes(normalizedAns, normalized)
    IN  [correct |-> exactMatch \/ isAcceptable, exactMatch |-> exactMatch,
         userAnswer |-> normalized, correctAnswer |-> question.answer]

(***************************************************************************)
(* SpecAnswer: a song or artist question is generated for a track and an   *)
(* answer is validated against it.                                         *)
(***************************************************************************)
AnswerCatalogs ==
  {<<[Catalog[1] EXCEPT !.title = t, !.artist = t]>> : t \in TitleTexts}

AnswerTypeInputs == {"song", "artist"}

InitAnswer ==
  /\ tracks \in AnswerCatalogs
  /\ usedTrackIds = {}
  /\ sessions = [id \in SessionIds |-> 0]
  /\ heap = [r \in Refs |-> Null]
  /\ calls = {}
  /\ result = NoResult
  /\ now = 0

\* validateAnswer(userAnswer, generateQuestion(track, questionType))
ValidateAnswer(userAnswer, questionType) ==
  /\ \E question \in generateQuestion(tracks[1], questionType) :
       result' = [op |-> "validateAnswer", userAnswer |-> userAnswer,
                  question |-> question,
                  validation |-> validateAnswer(userAnswer, question)]
  /\ UNCHANGED <<now, tracks, usedTrackIds, sessions, heap, calls>>

NextAnswer ==
  \E userAnswer \in Texts, questionType \in AnswerTypeInputs :
    ValidateAnswer(userAnswer, questionType)

SpecAnswer == InitAnswer /\ [][NextAnswer]_vars

\* a character without its case and its accent; the combining accent
\* folds to nothing
FoldChar(c) ==
  CASE c \in Letters -> <<"e">>
    [] c = "acute" -> << >>
    [] OTHER -> <<c>>

RECURSIVE FoldChars(_)
FoldChars(s) ==
  IF s = << >> THEN << >> ELSE FoldChar(Head(s)) \o FoldChars(Tail(s))

\* a text lower-cased, trimmed and without diacritics
Folded(s) == FoldChars(trim(s))

\* C27: validateAnswer is case- and diacritic-insensitive: for a question
\* generated by generateQuestion, an input that equals the answer after
\* lowercasing, trimming and stripping diacritics is reported correct
C27_ValidateAnswerFolds ==
  result.op = "validateAnswer" =>
    (Folded(result.userAnswer) = Folded(result.question.answer)
       => result.validation.correct)

\* the plain lower-case input was accepted for the accented upper-case
\* answer
C27_Witness ==
  /\ result.op = "validateAnswer"
  /\ result.userAnswer = <<"e">>
  /\ result.question.answer = <<"E_acute">>
  /\ result.validation.correct

\* the tracks a selection may still return: those not in the used set, or
\* the whole catalog when every track is in it
UnusedTracks(used) ==
  IF \A i \in DOMAIN tracks : tracks[i].id \in used
    THEN Range(tracks)
    ELSE {t \in Range(tracks) : t.id \notin used}

\* the track satisfies every active filter
MatchesAllActive(t, filters) ==
  /\ FilterActive(filters.difficulty) => DifficultyMatches(t, filters.difficulty)
  /\ FilterActive(filters.genre) => GenreMatches(t, filters.genre)
  /\ FilterActive(filters.decade) => DecadeMatches(t, filters.decade)

\* the four tiers, in order: all active filters; the difficulty filter only;
\* the genre filter only; any unused track
Tier(n, used, filters) ==
  CASE n = 1 -> {t \in UnusedTracks(used) : MatchesAllActive(t, filters)}
    [] n = 2 -> IF FilterActive(filters.difficulty)
                  THEN {t \in UnusedTracks(used) :
                          DifficultyMatches(t, filters.difficulty)}
                  ELSE {}
    [] n = 3 -> IF FilterActive(filters.genre)
                  THEN {t \in UnusedTracks(used) :
                          GenreMatches(t, filters.genre)}
                  ELSE {}
    [] OTHER -> UnusedTracks(used)

\* the first tier that is not empty (the last one when all are)
FirstTier(used, filters) ==
  IF Tier(1, used, filters) # {} THEN Tier(1, used, filters)
  ELSE IF Tier(2, used, filters) # {} THEN Tier(2, used, filters)
  ELSE IF Tier(3, used, filters) # {} THEN Tier(3, used, filters)
  ELSE Tier(4, used, filters)

\* C28: getRandomTrack(filters) returns a track of the first non-empty tier:
\* unused tracks matching all active filters; unused tracks matching the
\* difficulty filter only; unused tracks matching the genre filter only; any
\* unused track.  Whenever some unused track satisfies all active filters,
\* the returned track satisfies all of them
C28_TieredSelection ==
  (result.op = "getRandomTrack" /\ ~result.threw) =>
    /\ result.track \in FirstTier(result.before, result.filters)
    /\ (\E t \in UnusedTracks(result.before) :
          MatchesAllActive(t, result.filters))
       => MatchesAllActive(result.track, result.filters)

\* no unused track is an easy rock track of the 1990s: the easy track was
\* returned although there is an unused rock track of the 1990s
C28_Witness ==
  /\ result.op = "getRandomTrack"
  /\ ~result.threw
  /\ Len(tracks) = 3
  /\ result.before = {}
  /\ result.filters = [genre |-> "rock", decade |-> "1990s", difficulty |-> "EASY"]
  /\ result.track.id = "001"

(***************************************************************************)
(* SpecFilter: one session configured with sets of genres and decades,     *)
(* its rounds requested one after the other.                               *)
(***************************************************************************)
\* config.genres / decades / difficulty: a genre set of which one genre has
\* no track; sets that cover the catalog; one genre, decade and difficulty
FilterSetConfigs ==
  {[genres |-> <<"ROCK", "JAZZ">>, decades |-> <<"1980s">>, difficulty |-> "ANY"],
   [genres |-> <<"ROCK", "POP">>, decades |-> <<"1980s", "1990s">>,
    difficulty |-> "ANY"],
   [genres |-> <<"POP">>, decades |-> <<"1990s">>, difficulty |-> "MEDIUM"]}

NextFilter ==
  \/ \E sessionId \in CreateIds, players \in PlayerLists,
        filterConfig \in FilterSetConfigs, targetScore \in TargetScores :
       /\ heap[1] = Null
       /\ CreateSession(sessionId, players, filterConfig, targetScore)
  \/ \E sessionId \in CreateIds : StartGame(sessionId)
  \/ \E sessionId \in CreateIds, forcedQuestionType \in SeqForcedTypeInputs :
       /\ calls = {}
       /\ Get(sessionId) # 0 => heap[Get(sessionId)].currentRound = Null
       /\ NextRoundBegin(sessionId, forcedQuestionType)
  \/ \E call \in calls, audio \in AudioOutcomes : NextRoundResume(call, audio)
  \/ \E sessionId \in CreateIds, winnerId \in WinnerInputs :
       RevealAnswer(sessionId, winnerId)

SpecFilter == Init /\ [][NextFilter]_vars

\* the track is of one of the configured genres and one of the configured
\* decades
InFilterSets(t, config) ==
  /\ \E g \in Range(config.genres) : GenreMatches(t, g)
  /\ \E d \in Range(config.decades) : DecadeMatches(t, d)

\* some unused track of the catalog is within the genre set, the decade set
\* and the difficulty of the configuration
SomeUnusedInFilterSets(config) ==
  \E i \in DOMAIN tracks :
    /\ tracks[i].id \notin usedTrackIds
    /\ InFilterSets(tracks[i], config)
    /\ FilterActive(config.difficulty) =>
         DifficultyMatches(tracks[i], config.difficulty)

\* a nextRound on a session whose genre and decade sets hold no 'ANY'
\* selects a track within both sets whenever an unused one exists
FilterSetsHonoured ==
  \A sessionId \in CreateIds :
    \A forcedQuestionType \in SeqForcedTypeInputs :
      ( /\ NextRoundBegin(sessionId, forcedQuestionType)
        /\ Get(sessionId) # 0
        /\ calls' # calls )
      => LET config == heap[Get(sessionId)].config IN
         ( /\ "ANY" \notin Range(config.genres)
           /\ "ANY" \notin Range(config.decades)
           /\ SomeUnusedInFilterSets(config) )
         => \A call \in calls' \ calls : InFilterSets(call.track, config)

\* C29: a session's genre and decade filter sets are honoured as sets: with
\* genre set G and decade set D (neither containing 'ANY') and some unused
\* catalog track of a genre in G, a decade in D and the configured
\* difficulty, nextRound selects a track whose genre is in G and whose
\* decade is in D
C29_FilterSetsHonoured == [][FilterSetsHonoured]_vars

\* no nextRound is suspended on its audio lookup
Quiescent == calls = {}

\* the rounds opened and the rounds closed agree: with no open round the
\* history has one entry per round, with an open round one entry less
RoundsMatchHistory ==
  \A r \in Live :
    IF heap[r].currentRound = Null
      THEN Len(heap[r].history) = heap[r].round
      ELSE Len(heap[r].history) = heap[r].round - 1

\* C30: every round a successful nextRound opens is closed by exactly one
\* revealAnswer before another round opens: whenever no nextRound is in
\* flight, the history length equals the round counter if currentRound is
\* null, and the round counter minus 1 if a round is open
C30_RoundsClosedOnce == Quiescent => RoundsMatchHistory

\* a successful placeBet of a player without a bet in the open round spends
\* exactly the token that is recorded as the bet
FirstBetSpendsOne ==
  \A sessionId \in SessionIds :
    \A bet \in BetInputs :
      ( /\ PlaceBet(sessionId, bet[1], bet[2])
        /\ result'.success
        /\ bet[1] \notin DOMAIN heap[Get(sessionId)].currentRound.bets )
      => LET i == FindPlayer(heap[Get(sessionId)], bet[1])
             before == heap[Get(sessionId)].players[i]
             after == heap'[Get(sessionId)].players[i]
         IN  /\ Range(before.availableTokens) \ Range(after.availableTokens)
                  = {bet[2]}
             /\ heap'[Get(sessionId)].currentRound.bets[bet[1]] = bet[2]

\* a successful placeBet of a player who already has a bet in the open round
\* spends no further token
SecondBetSpendsNone ==
  \A sessionId \in SessionIds :
    \A bet \in BetInputs :
      ( /\ PlaceBet(sessionId, bet[1], bet[2])
        /\ result'.success
        /\ bet[1] \in DOMAIN heap[Get(sessionId)].currentRound.bets )
      => LET i == FindPlayer(heap[Get(sessionId)], bet[1])
         IN  heap'[Get(sessionId)].players[i].availableTokens =
               heap[Get(sessionId)].players[i].availableTokens

\* C31: at most one token is spent per player per round: the tokens a player
\* spent since the round opened are none without a recorded bet and exactly
\* the recorded bet otherwise; a second successful placeBet by the same
\* player in the same round must not consume a further token while
\* replacing the recorded bet
C31_OneTokenPerRound == [][FirstBetSpendsOne /\ SecondBetSpendsNone]_vars

\* the result reports a failure or stands for an exception
FailedOrThrew(res) ==
  IF "threw" \in DOMAIN res THEN res.threw ELSE ~res.success

\* a nextRound that returns a failure or throws before its await leaves the
\* session objects and the used set of the TrackService as they were
FailedBeginChangesNothing ==
  \A sessionId \in CreateIds :
    \A forcedQuestionType \in SeqForcedTypeInputs :
      ( /\ NextRoundBegin(sessionId, forcedQuestionType)
        /\ calls' = calls
        /\ FailedOrThrew(result') )
      => (heap' = heap /\ usedTrackIds' = usedTrackIds)

\* a nextRound that throws after its await leaves the session objects as
\* they were
FailedResumeChangesNothing ==
  \A call \in calls :
    \A audio \in SeqAudioOutcomes :
      (NextRoundResume(call, audio) /\ FailedOrThrew(result'))
      => heap' = heap

\* C32: a nextRound that fails or throws (no track available, empty catalog,
\* question generation error) leaves the session unchanged: the round
\* counter is not incremented, currentRound is unchanged and no track is
\* added to the used set
C32_FailedRoundChangesNothing ==
  [][FailedBeginChangesNothing /\ FailedResumeChangesNothing]_vars

(***************************************************************************)
(* SpecReveal: one session whose rounds are revealed with a player, with   *)
(* an id that is no player of the session, or without winner.              *)
(***************************************************************************)
\* winnerId argument of revealAnswer
RevealWinnerInputs == {"player_1", "player_9", NullId}
\* <<playerId, tokenValue>> arguments of placeBet
RevealBetInputs == {<<"player_1", 1>>}

NextReveal ==
  \/ \E sessionId \in CreateIds, players \in PlayerLists,
        filterConfig \in FilterConfigs, targetScore \in TargetScores :
       /\ heap[1] = Null
       /\ CreateSession(sessionId, players, filterConfig, targetScore)
  \/ \E sessionId \in CreateIds : StartGame(sessionId)
  \/ \E sessionId \in CreateIds, forcedQuestionType \in ForcedTypeInputs :
       /\ calls = {}
       /\ Get(sessionId) # 0 => heap[Get(sessionId)].currentRound = Null
       /\ NextRoundBegin(sessionId, forcedQuestionType)
  \/ \E call \in calls, audio \in StoreAudioOutcomes :
       NextRoundResume(call, audio)
  \/ \E sessionId \in CreateIds, bet \in RevealBetInputs :
       PlaceBet(sessionId, bet[1], bet[2])
  \/ \E sessionId \in CreateIds, winnerId \in RevealWinnerInputs :
       RevealAnswer(sessionId, winnerId)

SpecReveal == Init /\ [][NextReveal]_vars

\* C33: every history entry's winner is null or the id of a player of that
\* session, and its awarded points are greater than 0 exactly when the
\* winner is non-null; a revealAnswer with a winner id that is no player of
\* the session does not record that id as the round's winner
C33_HistoryWinnerValid ==
  \A r \in Live :
    \A k \in DOMAIN heap[r].history :
      LET entry == heap[r].history[k] IN
      /\ \/ entry.winner = NullId
         \/ \E i \in DOMAIN heap[r].players : heap[r].players[i].id = entry.winner
      /\ (entry.pointsAwarded > 0) <=> (entry.winner # NullId)

\* the session object of the suspended call was deleted: its id is no
\* longer in the store
DeletedWhileSuspended(call) == sessions[heap[call.session].id] = 0

\* C34: if a session is deleted while one of its nextRound calls is
\* suspended on the audio lookup, that nextRound does not report success
\* for the deleted session and the session does not reappear in the store
ResumeOnDeletedFails ==
  \A call \in calls :
    \A audio \in StoreAudioOutcomes :
      (DeletedWhileSuspended(call) /\ NextRoundResume(call, audio))
      => (FailedOrThrew(result') /\ sessions' = sessions)

C34_ResumeOnDeletedFails == [][ResumeOnDeletedFails]_vars

\* the players of the session whose score has reached the target
AtTarget(session) ==
  {i \in DOMAIN session.players :
     session.players[i].score >= session.config.targetScore}

\* C35: nextRound on a playing session in which some player's score is
\* already >= targetScore sets the status to finished and returns gameOver
\* with the first such player as winner; it does not increment the round
\* counter, select or mark a track, or open a round
GameOverBranch ==
  \A sessionId \in SessionIds :
    \A forcedQuestionType \in ForcedTypeInputs :
      ( /\ Get(sessionId) # 0
        /\ heap[Get(sessionId)].status = "playing"
        /\ AtTarget(heap[Get(sessionId)]) # {}
        /\ NextRoundBegin(sessionId, forcedQuestionType) )
      => LET before == heap[Get(sessionId)]
             after == heap'[Get(sessionId)]
             first == CHOOSE i \in AtTarget(before) :
                        \A j \in AtTarget(before) : i <= j
         IN  /\ after = [before EXCEPT !.status = "finished"]
             /\ result'.op = "nextRound"
             /\ result'.success
             /\ "gameOver" \in DOMAIN result'
             /\ result'.gameOver
             /\ result'.winner.id = before.players[first].id
             /\ result'.winner.score = before.players[first].score
             /\ usedTrackIds' = usedTrackIds
             /\ calls' = calls

C35_GameOverBranch == [][GameOverBranch]_vars

\* nextRound reported the game over for the second player on a session that
\* had been started again after it was won
C35_Witness ==
  /\ result.op = "nextRound"
  /\ "gameOver" \in DOMAIN result
  /\ result.winner.id = "player_2"
  /\ \E r \in Live : heap[r].status = "finished" /\ heap[r].round >= 1

(***************************************************************************)
(* SpecTerm: one session played to its end: rounds are requested one after *)
(* the other and every round is revealed with a player as winner.          *)
(***************************************************************************)
\* <<config.players, config.targetScore>> of createSession
TermConfigs == {<<<<"Ana">>, 2>>, <<<<"Ana", "Bob">>, 1>>}
\* winnerId argument of revealAnswer
TermWinnerInputs == {"player_1", "player_2"}
\* forcedQuestionType of nextRound: the type with the fewest points
TermForcedTypeInputs == {"song"}

TermBegin ==
  \E sessionId \in CreateIds, forcedQuestionType \in TermForcedTypeInputs :
    /\ calls = {}
    /\ Get(sessionId) # 0
    /\ heap[Get(sessionId)].currentRound = Null
    /\ NextRoundBegin(sessionId, forcedQuestionType)

TermResume ==
  \E call \in calls, audio \in AudioOutcomes : NextRoundResume(call, audio)

TermReveal ==
  \E sessionId \in CreateIds, winnerId \in TermWinnerInputs :
    /\ Get(sessionId) # 0
    /\ FindPlayer(heap[Get(sessionId)], winnerId) # 0
    /\ RevealAnswer(sessionId, winnerId)

NextTerm ==
  \/ \E sessionId \in CreateIds, config \in TermConfigs,
        filterConfig \in FilterConfigs :
       /\ heap[1] = Null
       /\ CreateSession(sessionId, config[1], filterConfig, config[2])
  \/ \E sessionId \in CreateIds : StartGame(sessionId)
  \/ TermBegin
  \/ TermResume
  \/ \E sessionId \in CreateIds, bet \in SeqBetInputs :
       PlaceBet(sessionId, bet[1], bet[2])
  \/ TermReveal

SpecTerm == Init /\ [][NextTerm]_vars

\* rounds keep being requested, the audio lookup returns, and every opened
\* round is revealed with a winner
FairTerm ==
  /\ WF_vars(TermBegin)
  /\ WF_vars(TermResume)
  /\ WF_vars(TermReveal)

SpecTermFair == SpecTerm /\ FairTerm

\* the revealAnswer calls so far that named a player of the session
WinnerReveals(session) ==
  Cardinality({k \in DOMAIN session.history :
                 FindPlayer(session, session.history[k].winner) # 0})

\* P * (T - 1) + 1
RevealBound(session) ==
  Len(session.players) * (session.config.targetScore - 1) + 1

\* every award to a winner is at least 1 point, so after P*(T-1)+1 reveals
\* with a winner some player has reached the target
BoundReachesTarget ==
  \A r \in Live :
    /\ \A k \in DOMAIN heap[r].history :
         FindPlayer(heap[r], heap[r].history[k].winner) # 0
           => heap[r].history[k].pointsAwarded >= 1
    /\ WinnerReveals(heap[r]) >= RevealBound(heap[r])
         => AtTarget(heap[r]) # {}

\* the revealAnswer after which some player has reached the target leaves
\* the session finished
RevealAtTargetFinishes ==
  \A sessionId \in CreateIds :
    \A winnerId \in TermWinnerInputs :
      ( /\ RevealAnswer(sessionId, winnerId)
        /\ result'.success
        /\ AtTarget(heap'[Get(sessionId)]) # {} )
      => heap'[Get(sessionId)].status = "finished"

SomePlaying == \E r \in Live : heap[r].status = "playing"
SomeFinished == \E r \in Live : heap[r].status = "finished"

\* C36: game termination: with targetScore T >= 1 and P players a session is
\* finished after at most P*(T-1)+1 revealAnswer calls that name a player as
\* winner, because every award is at least 1 point; under fairness a playing
\* session with a non-empty catalog in which every opened round is
\* eventually revealed with a winner eventually reaches status finished
C36_Termination ==
  /\ []BoundReachesTarget
  /\ [][RevealAtTargetFinishes]_vars
  /\ (SomePlaying ~> SomeFinished)

\* one player, target 2: the first reveal gave 1 point and did not end the
\* game, the second one, the P*(T-1)+1-th, did
C36_Witness ==
  \E r \in Live :
    /\ Len(heap[r].players) = 1
    /\ heap[r].config.targetScore = 2
    /\ Len(heap[r].history) = 2
    /\ heap[r].history[1].pointsAwarded = 1
    /\ WinnerReveals(heap[r]) = RevealBound(heap[r])
    /\ heap[r].status = "finished"

\* createSession returns an id that no stored session has, and every stored
\* session is still stored afterwards, with the same session object
CreateKeepsStored ==
  \A sessionId \in SessionIds :
    (\E players \in StorePlayerLists, filterConfig \in FilterConfigs,
        targetScore \in TargetScores :
       CreateSession(sessionId, players, filterConfig, targetScore))
    => /\ sessions[sessionId] = 0
       /\ \A id \in SessionIds :
            sessions[id] # 0 =>
              /\ sessions'[id] = sessions[id]
              /\ heap'[sessions[id]] = heap[sessions[id]]

\* C37: createSession never replaces or alters an existing session: the id
\* it returns differs from the id of every session currently in the store,
\* and after it returns all previously stored sessions are still present
\* with unchanged state
C37_CreateKeepsStored == [][CreateKeepsStored]_vars

\* C38: validateAnswer rejects empty and whitespace-only input: for a
\* question with at least one accepted answer, an input that is empty after
\* trimming is reported as not correct
C38_BlankInputRejected ==
  ( /\ result.op = "validateAnswer"
    /\ trim(result.userAnswer) = << >>
    /\ _generateAcceptableAnswers(result.question.acceptableAnswers[2]) # {} )
  => ~result.validation.correct

====
